---- MODULE Spec2Model ----
(***************************************************************************)
(* Verification model of the ChEMBL text-to-SQL controller                 *)
(* (src/src/db_llm_query_v1.py): the UP -> SQL -> RES -> J iteration loop   *)
(* of ChEMBLLLMQuery.query, the judge-output handling of _call_judge, the   *)
(* rolling history window, the system-prompt hash check and the model      *)
(* scheduler generate_model_schedule.                                      *)
(*                                                                         *)
(* Conventions.  A Python Optional value is a sequence of length 0 (None)   *)
(* or 1.  A judge score s in [0,1] is the integer s * ScoreScale, and so is *)
(* judge_score_threshold.  Texts are small records or strings standing for *)
(* the classes of text the code tells apart.                               *)
(***************************************************************************)
EXTENDS Integers, Sequences, FiniteSets, TLC

\* ------------------------------------------------------------------------
\* Bounds of the model
\* ------------------------------------------------------------------------
MaxRetries == 2
MaxWindow == 1
MaxJudgeRetries == 2
ScoreScale == 1
MaxModels == 3
MaxCount == 4
MaxLongCount == 27
MaxRows == 12
MaxSamples == 10
MaxStratRows == 6
MaxStratSamples == 4

\* ------------------------------------------------------------------------
\* Python values
\* ------------------------------------------------------------------------
None == <<>>

Some(x) == <<x>>

Max2(a, b) == IF a >= b THEN a ELSE b

Min2(a, b) == IF a <= b THEN a ELSE b

\* seq[start:] of Python for any integer start: a negative start counts from
\* the end, and -0 is 0, so seq[-0:] is the whole sequence.
PySliceFrom(seq, start) ==
    LET len == Len(seq)
        lo  == IF start < 0 THEN Max2(len + start, 0) ELSE Min2(start, len)
    IN  SubSeq(seq, lo + 1, len)

\* The database file: whether it exists, the tables committed to it and
\* the rows written by the open transaction of self.conn.
Database(exists, tables, uncommitted) ==
    [exists |-> exists, tables |-> tables, uncommitted |-> uncommitted]

\* The ChEMBL database the controller is pointed at.
ChemblDb == Database(TRUE, {"molecule_dictionary", "activities"}, 0)

\* No file at db_path.
MissingDb == Database(FALSE, {}, 0)

\* ------------------------------------------------------------------------
\* State
\* ------------------------------------------------------------------------
VARIABLES
    max_retries,            \* self.max_retries
    history_window,         \* self.history_window
    judge_call_retries,     \* self.judge_call_retries
    judge_score_threshold,  \* self.judge_score_threshold (times ScoreScale)
    available,              \* is_available() of the providers of the run
    dry_run,                \* the dry_run argument of query()
    schema_file,            \* content of the schema document on disk
    schema_docs,            \* self.schema_docs, read at construction
    system_prompt,          \* self.system_prompt
    system_prompt_hash,     \* self.system_prompt_hash
    pc,                     \* position of query(): idle, up, sql, exec, judge, done
    attempt_idx,            \* loop variable of query()
    iterations,             \* the history list of query()
    up,                     \* Optional current UP
    sql,                    \* Optional SQL_n
    df,                     \* Optional materialized table of iteration n
    err,                    \* Optional execution error of iteration n
    res_summary,            \* Optional summary handed to the judge
    outcome,                \* how query() ended: the return or raise taken
    result,                 \* Optional table returned by query()
    sent,                   \* Optional last message list handed to a provider
    calls,                  \* provider and DB calls made by the stage that ran last
    files,                  \* the CSV files query() has written
    log_stage_stack,        \* the value of _LOG_STAGE_STACK
    log_stage_tokens,       \* the reset tokens of the open log_stage scopes
    stage_path,             \* the stack the log records of the last stage saw
    sched_in,               \* arguments of generate_model_schedule
    sched_out,              \* Optional result of generate_model_schedule
    call_in,                \* Optional arguments of a helper function called alone
    call_out,               \* Optional result of that call
    db,                     \* the SQLite database file at db_path, as self.conn sees it
    progress_handler        \* Optional progress handler installed on self.conn

cfgvars == <<max_retries, history_window, judge_call_retries,
             judge_score_threshold, available, dry_run>>

spvars == <<schema_docs, system_prompt_hash>>

stagevars == <<log_stage_stack, log_stage_tokens, stage_path>>

runvars == <<pc, attempt_idx, iterations, up, sql, df, err, res_summary,
             outcome, result, sent, calls, files, stagevars>>

schedvars == <<sched_in, sched_out>>

callvars == <<call_in, call_out, db, progress_handler>>

vars == <<cfgvars, spvars, schema_file, system_prompt, runvars, schedvars,
          callvars>>

\* ------------------------------------------------------------------------
\* System prompt and its hash
\* ------------------------------------------------------------------------
\* Contents the schema document on disk can have.
FileContents == {"schema_v1", "schema_v2"}

\* _build_system_prompt: the schema docs wrapped in the <SP> envelope.
build_system_prompt(docs) == <<"<SP>", docs, "</SP>">>

SystemPrompts == {build_system_prompt(d) : d \in FileContents}

\* hashlib.sha256(...).hexdigest(): a digest, one per text (no collisions
\* among the texts of the model).
Sha256(text) ==
    IF text = build_system_prompt("schema_v1") THEN "sha_3fa1"
    ELSE IF text = build_system_prompt("schema_v2") THEN "sha_9c2e"
    ELSE "sha_0000"

\* The check left out.
system_prompt_unchanged_unchecked(prompt, stored_hash) == TRUE

\* The check made against a system prompt rebuilt from the file on disk.
system_prompt_unchanged_reread(prompt, stored_hash) ==
    Sha256(build_system_prompt(schema_file)) = stored_hash

\* _assert_system_prompt_unchanged passes (TRUE) or raises (FALSE).
system_prompt_unchanged(prompt, stored_hash) == Sha256(prompt) = stored_hash

\* ------------------------------------------------------------------------
\* Judge output
\* ------------------------------------------------------------------------
Scores == 0 .. ScoreScale

\* A judge text: kind says whether a {...} substring exists and decodes to a
\* JSON object; decision is str(obj.get("decision","")).strip().upper();
\* score is what float(obj.get("score")) yields (None when it raises), which
\* can lie outside [0,1] (ScoreScale + 1 stands for a score above 1).
JudgeText(kind, decision, score) ==
    [kind |-> kind, decision |-> decision, score |-> score]

ValidJudgeTexts ==
    {JudgeText("json", d, Some(s)) : d \in {"YES", "NO"}, s \in Scores}

JudgeTexts ==
    ValidJudgeTexts
    \cup {JudgeText("nojson", "", None), JudgeText("badjson", "", None)}
    \cup {JudgeText("json", "MAYBE", Some(s)) : s \in Scores}
    \cup {JudgeText("json", d, None) : d \in {"YES", "NO"}}
    \cup {JudgeText("json", d, Some(ScoreScale + 1)) : d \in {"YES", "NO"}}

\* Texts the judge provider returns in the controller model: every valid
\* judgement and one text without a JSON object.
CtlJudgeTexts == ValidJudgeTexts \cup {JudgeText("nojson", "", None)}

JudgeFailedText == JudgeText("Judge failed", "NO", Some(0))

JudgeDisabledText == JudgeText("Judge disabled", "NO", Some(0))

\* parse_judge_output: <<decision, score>>, each Optional.
parse_judge_output(text) ==
    IF text.kind = "json"
    THEN LET decision == IF text.decision = "YES" THEN Some(TRUE)
                         ELSE IF text.decision = "NO" THEN Some(FALSE)
                         ELSE None
             score    == IF text.score # None
                            /\ ~(0 <= text.score[1] /\ text.score[1] <= ScoreScale)
                         THEN None
                         ELSE text.score
         IN  IF decision = None \/ score = None
             THEN <<None, None>>
             ELSE <<decision, score>>
    ELSE <<None, None>>

\* What generate_text of the judge provider can return: None (the call
\* failed) or a text.
JudgeResponses == {None} \cup {Some(t) : t \in CtlJudgeTexts}

\* range(max(1, self.judge_call_retries)) as the set of 1-based retry numbers.
RetryRange(retries) == 1 .. Max2(1, retries)

\* The retry loop of _call_judge from retry number i on, last_text being the
\* Optional last text received: the set of results it can end with, one for
\* each way the provider can respond.  A result is the tuple _call_judge
\* returns and the number of generate_text calls made.
RECURSIVE judge_loop(_, _, _, _)
judge_loop(i, last_text, retries, threshold) ==
    IF i \notin RetryRange(retries)
    THEN IF last_text = None
         THEN {[decision |-> None, score |-> None, text |-> JudgeFailedText,
                calls |-> i - 1]}
         ELSE {[decision |-> parse_judge_output(last_text[1])[1],
                score    |-> parse_judge_output(last_text[1])[2],
                text     |-> last_text[1],
                calls    |-> i - 1]}
    ELSE UNION {
           IF response = None
           THEN judge_loop(i + 1, last_text, retries, threshold)
           ELSE LET text     == response[1]
                    decision == parse_judge_output(text)[1]
                    score    == parse_judge_output(text)[2]
                IN  IF decision = None \/ score = None
                    THEN judge_loop(i + 1, Some(text), retries, threshold)
                    ELSE IF decision = Some(TRUE) /\ score[1] < threshold
                    THEN judge_loop(i + 1, Some(text), retries, threshold)
                    ELSE IF decision = Some(FALSE) /\ score[1] >= threshold
                    THEN judge_loop(i + 1, Some(text), retries, threshold)
                    ELSE {[decision |-> decision, score |-> score,
                           text |-> text, calls |-> i]}
           : response \in JudgeResponses}

\* _call_judge for a provider that is available: its possible results.
call_judge(retries, threshold) == judge_loop(1, None, retries, threshold)

\* _call_judge for a provider that is not available.
call_judge_disabled ==
    [decision |-> None, score |-> None, text |-> JudgeDisabledText, calls |-> 0]

\* The retry loop of _call_prompt_writer from retry number i on: generate_text
\* returns None ("nil"), a text that strips to "" ("empty") or a text.  The
\* set of results: the Optional text class returned and the number of
\* generate_text calls made.
RECURSIVE prompt_writer_loop(_, _, _)
prompt_writer_loop(i, last_text, retries) ==
    IF i \notin RetryRange(retries)
    THEN {[text |-> last_text, calls |-> i - 1]}
    ELSE UNION {
           IF response = "nil"
           THEN prompt_writer_loop(i + 1, last_text, retries)
           ELSE IF response = "text"
                THEN {[text |-> Some("text"), calls |-> i]}
                ELSE prompt_writer_loop(i + 1, Some("empty"), retries)
           : response \in {"nil", "empty", "text"}}

\* ------------------------------------------------------------------------
\* History window, result summary, stop criterion
\* ------------------------------------------------------------------------
\* iterations[-self.history_window :]
Window(its, window) == PySliceFrom(its, 0 - window)

\* What _history_blocks renders of the list it is given, which every message
\* builder has cut with the window once more.
history_blocks(its, window) == Window(its, window)

\* _summarize_result as far as the judge's view of success goes.
summarize_result(table, error) ==
    IF error # None
    THEN [row_count |-> 0, status |-> "ERROR", error |-> error]
    ELSE IF table = None
         THEN [row_count |-> 0, status |-> "ERROR", error |-> Some("no result")]
         ELSE [row_count |-> table[1].rows, status |-> "OK", error |-> None]

\* stop_by_threshold with a strict comparison.
stop_by_threshold_strict(score, threshold) ==
    score # None /\ score[1] > threshold

stop_by_threshold(score, threshold) ==
    score # None /\ score[1] >= threshold

stop_by_yes(decision, score, threshold) ==
    decision = Some(TRUE) /\ (score = None \/ score[1] >= threshold)

\* The test `if stop_by_yes or stop_by_threshold` of query().
should_stop(decision, score, threshold) ==
    stop_by_yes(decision, score, threshold) \/ stop_by_threshold(score, threshold)

\* ------------------------------------------------------------------------
\* The controller: construction, query() and its stages
\* ------------------------------------------------------------------------
Running == {"up", "sql", "exec", "judge"}

Raised == {"raised_sp_changed", "raised_up", "raised_sql"}

Outcomes == {"running", "empty_question", "stopped", "exhausted", "dry_run"}
            \cup Raised

NoCalls == [up |-> 0, sql |-> 0, judge |-> 0, db |-> 0]

\* The Iteration tuple (the fields the loop and its prompts depend on).
Iteration(n, up_n, sql_n, summary, error, judgement) ==
    [n              |-> n,
     up             |-> up_n,
     sql            |-> sql_n,
     res_row_count  |-> summary.row_count,
     res_error      |-> error,
     judge_text     |-> judgement.text,
     judge_score    |-> judgement.score,
     judge_decision |-> judgement.decision]

\* [system, user] as built by _build_messages_for_up / _for_sql / _for_judge:
\* the system message and the tagged parts of the user message; disk is the
\* schema document's content on disk at the time of the build.
Messages(role, n, its, up_n, sql_n, res_n) ==
    [role    |-> role,
     n       |-> n,
     system  |-> system_prompt,
     history |-> history_blocks(its, history_window),
     up      |-> up_n,
     sql     |-> sql_n,
     res     |-> res_n,
     disk    |-> schema_file]

\* Exit of query() by a raise or a return.
Finish(how, table) ==
    /\ pc' = "done"
    /\ outcome' = how
    /\ result' = table

\* The stage names of query(): UQ, ITER_n, UP_n, SQL_n, RES_n, J_n.
Stage(kind, n) == <<kind, n>>

\* The stage stack and the tokens held by the open `with log_stage` blocks.
LogContext == [stack |-> log_stage_stack, tokens |-> log_stage_tokens]

\* log_stage up to its yield: token = _LOG_STAGE_STACK.set(stack + (stage,));
\* the token holds the value the variable had before.
log_stage_enter(ctx, stage) ==
    [stack |-> Append(ctx.stack, stage), tokens |-> Append(ctx.tokens, ctx.stack)]

\* The finally clause left out: the scope ends and the stack stays.
log_stage_exit_no_reset(ctx) ==
    [stack |-> ctx.stack, tokens |-> SubSeq(ctx.tokens, 1, Len(ctx.tokens) - 1)]

\* log_stage after its yield, on a normal exit, a return and a raise:
\* finally: _LOG_STAGE_STACK.reset(token).
log_stage_exit(ctx) ==
    [stack |-> ctx.tokens[Len(ctx.tokens)],
     tokens |-> SubSeq(ctx.tokens, 1, Len(ctx.tokens) - 1)]

\* The log context is left as ctx; the stage that ran saw the stack seen.
LeavesStages(ctx, seen) ==
    /\ log_stage_stack' = ctx.stack
    /\ log_stage_tokens' = ctx.tokens
    /\ stage_path' = seen

\* `with log_stage("UQ")` and the entry into ITER_1 when the loop runs.
QueryStages ==
    IF outcome' = "empty_question"
    THEN UNCHANGED stagevars
    ELSE LET inner == log_stage_enter(LogContext, Stage("UQ", 0))
             after == log_stage_exit(inner)
         IN  LeavesStages(IF pc' = "up"
                          THEN log_stage_enter(after, Stage("ITER", 1))
                          ELSE after,
                          inner.stack)

\* `with log_stage(f"{kind}_{n}")` inside ITER_n; a raise or a return after
\* it leaves ITER_n as well.
InnerStage(kind, n) ==
    LET inner == log_stage_enter(LogContext, Stage(kind, n))
        after == log_stage_exit(inner)
    IN  LeavesStages(IF pc' = "done" THEN log_stage_exit(after) ELSE after,
                     inner.stack)

\* `with log_stage(f"J_{n}")`, the end of ITER_n by a return or by the end
\* of the loop body, and the entry into ITER_n+1 when the loop goes on.
JudgeStages(n) ==
    LET inner == log_stage_enter(LogContext, Stage("J", n))
        after == log_stage_exit(log_stage_exit(inner))
    IN  LeavesStages(IF pc' = "up"
                     THEN log_stage_enter(after, Stage("ITER", n + 1))
                     ELSE after,
                     inner.stack)

\* ChEMBLLLMQuery.__init__: the state after construction with the given
\* arguments (dry is the dry_run argument the coming query() call gets).
Constructed(retries, window, judge_retries, threshold, avail, dry) ==
    /\ max_retries = retries
    /\ history_window = window
    /\ judge_call_retries = judge_retries
    /\ judge_score_threshold = threshold
    /\ available = avail
    /\ dry_run = dry
    /\ schema_file = "schema_v1"
    /\ schema_docs = schema_file
    /\ system_prompt = build_system_prompt(schema_docs)
    /\ system_prompt_hash = Sha256(system_prompt)
    /\ pc = "idle"
    /\ attempt_idx = 0
    /\ iterations = <<>>
    /\ up = None
    /\ sql = None
    /\ df = None
    /\ err = None
    /\ res_summary = None
    /\ outcome = "running"
    /\ result = None
    /\ sent = None
    /\ calls = NoCalls
    /\ files = {}
    /\ log_stage_stack = <<>>
    /\ log_stage_tokens = <<>>
    /\ stage_path = <<>>
    /\ progress_handler = None

\* The controller after construction, for every configuration of the bounds;
\* the scheduler is not under test.
Init ==
    /\ \E retries \in 0 .. MaxRetries, window \in 0 .. MaxWindow,
          judge_retries \in 0 .. MaxJudgeRetries, threshold \in Scores,
          avail \in BOOLEAN, dry \in BOOLEAN :
         Constructed(retries, window, judge_retries, threshold, avail, dry)
    /\ sched_in = None
    /\ sched_out = None
    /\ call_in = None
    /\ call_out = None
    /\ db = ChemblDb

\* self.save_intermediate, at its default.
save_intermediate == TRUE

\* The save_to_file argument of query(): a result file is named.
save_to_file == Some("query_results.csv")

\* The loop bound taken one too far.
loop_continues_one_more(idx, retries) == idx + 1 <= retries

\* range(self.max_retries) has a next value after attempt index idx.
loop_continues(idx, retries) == idx + 1 < retries

\* query(): the entry up to the head of the loop.
Query ==
    /\ pc = "idle"
    /\ \E question \in {"", "question"} :
         IF question = ""
         THEN Finish("empty_question", None)
         ELSE IF 0 < max_retries
              THEN /\ pc' = "up"
                   /\ UNCHANGED <<outcome, result>>
              ELSE Finish("exhausted", None)
    /\ QueryStages
    /\ UNCHANGED <<cfgvars, spvars, schema_file, system_prompt, schedvars, callvars,
                   attempt_idx, iterations, up, sql, df, err, res_summary,
                   sent, calls, files>>

\* Stage UP_n: _call_prompt_writer and the choice of UP_n in query().
PromptWriter ==
    /\ pc = "up"
    /\ LET n == attempt_idx + 1
           window_iters == Window(iterations, history_window)
           Choose(up_next, ncalls, msgs) ==
               /\ sent' = msgs
               /\ calls' = [NoCalls EXCEPT !.up = ncalls]
               /\ IF up_next = None \/ up_next = Some("empty")
                  THEN IF up = None
                       THEN /\ Finish("raised_up", None)
                            /\ UNCHANGED up
                       ELSE /\ pc' = "sql"
                            /\ UNCHANGED <<up, outcome, result>>
                  ELSE /\ up' = Some(n)
                       /\ pc' = "sql"
                       /\ UNCHANGED <<outcome, result>>
       IN  IF ~available
           THEN Choose(None, 0, sent)
           ELSE IF ~system_prompt_unchanged(system_prompt, system_prompt_hash)
           THEN /\ Finish("raised_sp_changed", None)
                /\ calls' = NoCalls
                /\ UNCHANGED <<up, sent>>
           ELSE \E r \in prompt_writer_loop(1, None, judge_call_retries) :
                  Choose(r.text, r.calls,
                         Some(Messages("up", n, window_iters, None, None, None)))
    /\ InnerStage("UP", attempt_idx + 1)
    /\ UNCHANGED <<cfgvars, spvars, schema_file, system_prompt, schedvars, callvars,
                   attempt_idx, iterations, sql, df, err, res_summary, files>>

\* The dry-run test ignored.
dry_run_ignored(dry) == FALSE

\* `if dry_run:` after SQL_n has been generated.
dry_run_returns(dry) == dry

\* Stage SQL_n: _call_sql_writer, the raise on None and the dry-run return.
SqlWriter ==
    /\ pc = "sql"
    /\ LET n == attempt_idx + 1
           window_iters == Window(iterations, history_window)
       IN  IF ~available
           THEN /\ Finish("raised_sql", None)
                /\ UNCHANGED <<sql, sent, calls>>
           ELSE IF ~system_prompt_unchanged(system_prompt, system_prompt_hash)
           THEN /\ Finish("raised_sp_changed", None)
                /\ UNCHANGED <<sql, sent, calls>>
           ELSE /\ sent' = Some(Messages("sql", n, window_iters, up, None, None))
                /\ calls' = [NoCalls EXCEPT !.sql = 1]
                /\ \E generated \in {None, Some(n)} :
                     IF generated = None
                     THEN /\ Finish("raised_sql", None)
                          /\ UNCHANGED sql
                     ELSE /\ sql' = generated
                          /\ IF dry_run_returns(dry_run)
                             THEN Finish("dry_run", None)
                             ELSE /\ pc' = "exec"
                                  /\ UNCHANGED <<outcome, result>>
    /\ InnerStage("SQL", attempt_idx + 1)
    /\ UNCHANGED <<cfgvars, spvars, schema_file, system_prompt, schedvars, callvars,
                   attempt_idx, iterations, up, df, err, res_summary, files>>

\* self.timeout, the configured limit in seconds.
timeout == 600

\* The statement texts a SQL-writer can return, by what they do.
Statements == {"SELECT", "INSERT", "DROP TABLE"}

\* self.conn.execute(sql) and fetchall() on the connection opened by
\* sqlite3.connect(db_path), under a progress handler that aborts after
\* `seconds` (no handler when seconds = 0): the rows or the message of the
\* error raised, and the database afterwards.  INSERT opens a transaction
\* that is never committed; DROP TABLE outside a transaction is committed
\* at once.  "interrupted" is the message of the abort.
sqlite_execute(database, statement, n, seconds) ==
    CASE statement = "SELECT" ->
           {[engine |-> e, db |-> database] :
              e \in {[kind |-> "rows", table |-> [n |-> n, rows |-> 2]],
                     [kind |-> "error", msg |-> "no such column: x"],
                     [kind |-> "error", msg |-> "no such table: Interrupted_jobs"]}
                    \cup (IF seconds # 0
                          THEN {[kind |-> "error", msg |-> "interrupted"]}
                          ELSE {})}
      [] statement = "INSERT" ->
           {[engine |-> [kind |-> "rows", table |-> [n |-> n, rows |-> 0]],
             db |-> [database EXCEPT !.uncommitted = @ + 1]]}
      [] statement = "DROP TABLE" ->
           {[engine |-> [kind |-> "rows", table |-> [n |-> n, rows |-> 0]],
             db |-> [database EXCEPT !.tables = @ \ {"activities"}]]}

\* What the engine does with a SELECT.
EngineOutcomes(n, seconds) ==
    {r.engine : r \in sqlite_execute(ChemblDb, "SELECT", n, seconds)}

\* "interrupted" in msg.lower()
mentions_interrupted(msg) == msg \in {"interrupted", "no such table: Interrupted_jobs"}

\* f"Query timed out after {self.timeout}s"
timed_out_message(seconds) == <<"Query timed out after ", seconds, "s">>

\* The except branch with the message left as the engine gave it.
execute_query_with_timeout_raw_message(engine, seconds) ==
    IF engine.kind = "rows"
    THEN <<TRUE, Some(engine.table), None>>
    ELSE <<FALSE, None, Some(<<engine.msg>>)>>

\* execute_query_with_timeout: <<success, Optional table, Optional error>>.
execute_query_with_timeout(engine, seconds) ==
    IF engine.kind = "rows"
    THEN <<TRUE, Some(engine.table), None>>
    ELSE <<FALSE, None,
           Some(IF mentions_interrupted(engine.msg)
                THEN timed_out_message(seconds)
                ELSE <<engine.msg>>)>>

\* `if self.timeout: self.conn.set_progress_handler(_progress_handler, 10000)`:
\* the handler on the connection while the statement runs; clock names the
\* call whose start_time the handler measures from.
set_progress_handler(installed, seconds, clock) ==
    IF seconds # 0 THEN Some(clock) ELSE installed

\* The handler cleared on the successful path only.
progress_handler_after_success_only(installed, engine) ==
    IF engine.kind = "rows" THEN None ELSE installed

\* `finally: self.conn.set_progress_handler(None, 0)`: the handler on the
\* connection when execute_query_with_timeout has returned.
progress_handler_after(installed, engine) == None

\* The outcomes of the engine that a run of query() goes through: the
\* statement returns rows or the progress handler aborts it.
RunEngineOutcomes(n) ==
    {e \in EngineOutcomes(n, timeout) : e.kind = "rows" \/ e.msg = "interrupted"}

\* What execute_query_with_timeout can return for SQL_n.
ExecResults(n) ==
    {execute_query_with_timeout(e, timeout) : e \in RunEngineOutcomes(n)}

\* Stage RES_n: execute_query_with_timeout and _summarize_result.
Execute ==
    /\ pc = "exec"
    /\ \E e \in RunEngineOutcomes(attempt_idx + 1) :
         LET r         == execute_query_with_timeout(e, timeout)
             installed == set_progress_handler(progress_handler, timeout,
                                               attempt_idx + 1)
         IN  /\ r \in ExecResults(attempt_idx + 1)
             /\ df' = r[2]
             /\ err' = IF r[1] THEN None ELSE r[3]
             /\ res_summary' = Some(summarize_result(r[2], IF r[1] THEN None ELSE r[3]))
             /\ progress_handler' = progress_handler_after(installed, e)
    /\ calls' = [NoCalls EXCEPT !.db = 1]
    /\ pc' = "judge"
    /\ InnerStage("RES", attempt_idx + 1)
    /\ UNCHANGED <<cfgvars, spvars, schema_file, system_prompt, schedvars,
                   call_in, call_out, db,
                   attempt_idx, iterations, up, sql, outcome, result, sent, files>>

\* Stage J_n: _call_judge, the append of the Iteration, the stop test and
\* the step to the next iteration or to exhaustion.
Judge ==
    /\ pc = "judge"
    /\ LET n == attempt_idx + 1
           window_iters == Window(iterations, history_window)
           IntermediateFile(k) ==
               IF save_intermediate /\ df # None
               THEN {[kind |-> "intermediate", n |-> k]}
               ELSE {}
           StepOn ==
               IF loop_continues(attempt_idx, max_retries)
               THEN /\ attempt_idx' = attempt_idx + 1
                    /\ pc' = "up"
                    /\ UNCHANGED <<outcome, result>>
               ELSE /\ Finish("exhausted", None)
                    /\ UNCHANGED attempt_idx
           Conclude(j, msgs) ==
               /\ sent' = msgs
               /\ calls' = [NoCalls EXCEPT !.judge = j.calls]
               /\ iterations' = Append(iterations,
                                       Iteration(n, up[1], sql[1], res_summary[1], err, j))
               /\ IF should_stop(j.decision, j.score, judge_score_threshold)
                  THEN /\ Finish("stopped", df)
                       /\ files' = files \cup IntermediateFile(n)
                                          \cup (IF df # None /\ save_to_file # None
                                                THEN {[kind |-> "result", n |-> n]}
                                                ELSE {})
                       /\ UNCHANGED attempt_idx
                  ELSE /\ files' = files \cup IntermediateFile(n)
                       /\ StepOn
       IN  IF ~available
           THEN Conclude(call_judge_disabled, sent)
           ELSE IF ~system_prompt_unchanged(system_prompt, system_prompt_hash)
           THEN /\ Finish("raised_sp_changed", None)
                /\ UNCHANGED <<attempt_idx, iterations, sent, calls, files>>
           ELSE \E j \in call_judge(judge_call_retries, judge_score_threshold) :
                  Conclude(j, Some(Messages("judge", n, window_iters, up, sql, res_summary)))
    /\ JudgeStages(attempt_idx + 1)
    /\ UNCHANGED <<cfgvars, spvars, schema_file, system_prompt, schedvars, callvars,
                   up, sql, df, err, res_summary>>

\* The owner of the controller object assigns its system_prompt attribute
\* between construction and the call of query().
MutateSystemPrompt ==
    /\ pc = "idle"
    /\ \E text \in SystemPrompts \ {system_prompt} : system_prompt' = text
    /\ system_prompt_unchanged(system_prompt, system_prompt_hash)
    /\ UNCHANGED <<cfgvars, spvars, schema_file, runvars, schedvars, callvars>>

\* The schema document is edited on disk while query() runs.  The file was
\* read by __init__ and is not read again.
EditSchemaFile ==
    /\ pc \in Running
    /\ schema_file = schema_docs
    /\ \E content \in FileContents \ {schema_file} : schema_file' = content
    /\ UNCHANGED <<cfgvars, spvars, system_prompt, runvars, schedvars, callvars>>

Next ==
    \/ Query
    \/ PromptWriter
    \/ SqlWriter
    \/ Execute
    \/ Judge
    \/ MutateSystemPrompt
    \/ EditSchemaFile

Spec == Init /\ [][Next]_vars

\* ------------------------------------------------------------------------
\* Model scheduler
\* ------------------------------------------------------------------------
CicPrimeLimit == 100

CicModulus == 233

ModelNames == {"model_a", "model_b", "model_c"}

CycleMethods == {"orderly", "random", "cicada"}

Range(seq) == {seq[i] : i \in 1 .. Len(seq)}

\* int(limit ** 0.5)
IntSqrt(limit) == CHOOSE r \in 0 .. limit : r * r <= limit /\ limit < (r + 1) * (r + 1)

\* The sieve loop of cic_find_primes from i on; sieve is the set of numbers
\* whose flag is still True.
RECURSIVE sieve_loop(_, _, _)
sieve_loop(sieve, i, limit) ==
    IF i > IntSqrt(limit)
    THEN sieve
    ELSE IF i \in sieve
         THEN sieve_loop(sieve \ {m \in (i * i) .. limit : (m - i * i) % i = 0},
                         i + 1, limit)
         ELSE sieve_loop(sieve, i + 1, limit)

\* A set of integers as the ascending list enumerate() yields.
RECURSIVE Ascending(_)
Ascending(set) ==
    IF set = {}
    THEN <<>>
    ELSE LET least == CHOOSE x \in set : \A y \in set : x <= y
         IN  <<least>> \o Ascending(set \ {least})

cic_find_primes(limit) == Ascending(sieve_loop(2 .. limit, 2, limit))

\* The prime taken one place further on.
cic_schedule_next_prime(n) ==
    LET primes == cic_find_primes(CicPrimeLimit)
    IN  [k \in 1 .. n |->
            ((k - 1) * primes[(k % Len(primes)) + 1]) % CicModulus]

cic_schedule(n) ==
    LET primes == cic_find_primes(CicPrimeLimit)
    IN  [k \in 1 .. n |->
            ((k - 1) * primes[((k - 1) % Len(primes)) + 1]) % CicModulus]

\* One entry too many.
orderly_schedule_one_more(num_retries, models) ==
    [k \in 1 .. num_retries + 1 |-> models[((k - 1) % Len(models)) + 1]]

\* The cycle started at the second model.
orderly_schedule_shifted(num_retries, models) ==
    [k \in 1 .. num_retries |-> models[(k % Len(models)) + 1]]

orderly_schedule(num_retries, models) ==
    [k \in 1 .. num_retries |-> models[((k - 1) % Len(models)) + 1]]

cicada_schedule(num_retries, models) ==
    LET positions == cic_schedule(num_retries)
    IN  [k \in 1 .. num_retries |-> models[(positions[k] % Len(models)) + 1]]

\* The 'random' branch for the draws random.randint returned (0-based
\* indices), from draw i on, last_idx being the index used before.
RECURSIVE random_schedule(_, _, _, _)
random_schedule(models, draws, i, last_idx) ==
    IF i > Len(draws)
    THEN <<>>
    ELSE LET num_models == Len(models)
             idx == IF draws[i] = last_idx /\ num_models > 1
                    THEN (draws[i] + 1) % num_models
                    ELSE draws[i]
         IN  <<models[idx + 1]>> \o random_schedule(models, draws, i + 1, idx)

\* generate_model_schedule; draws are the values random.randint returns.
generate_model_schedule(num_retries, models, cycle_method, draws) ==
    IF Len(models) = 0
    THEN [status |-> "returned", schedule |-> <<>>]
    ELSE IF cycle_method = "random"
    THEN [status |-> "returned", schedule |-> random_schedule(models, draws, 1, 0 - 1)]
    ELSE IF cycle_method = "orderly"
    THEN [status |-> "returned", schedule |-> orderly_schedule(num_retries, models)]
    ELSE IF cycle_method = "cicada"
    THEN [status |-> "returned", schedule |-> cicada_schedule(num_retries, models)]
    ELSE [status |-> "ValueError", schedule |-> <<>>]

ModelLists == UNION {[1 .. len -> ModelNames] : len \in 0 .. MaxModels}

\* The policies whose schedule does not depend on random draws.
DrawFreeMethods == {"orderly", "cicada"}

\* A call of generate_model_schedule is pending with arguments of the bounds
\* (counts up to MaxCount for every policy, up to MaxLongCount for the
\* policies without draws); the controller is constructed and idle.
SchedInit ==
    /\ Constructed(MaxRetries, MaxWindow, MaxJudgeRetries, ScoreScale, TRUE, FALSE)
    /\ sched_in \in {Some([num_retries |-> c, models |-> ms, cycle_method |-> cm]) :
                        c \in 0 .. MaxCount, ms \in ModelLists,
                        cm \in CycleMethods \cup {"other"}}
                    \cup
                    {Some([num_retries |-> c, models |-> ms, cycle_method |-> cm]) :
                        c \in MaxCount + 1 .. MaxLongCount, ms \in ModelLists,
                        cm \in DrawFreeMethods}
    /\ sched_out = None
    /\ call_in = None
    /\ call_out = None
    /\ db = ChemblDb

\* The pending call runs.
GenerateModelSchedule ==
    /\ sched_in # None
    /\ sched_out = None
    /\ LET in == sched_in[1]
           ndraws == IF in.cycle_method = "random" THEN in.num_retries ELSE 0
       IN  \E draws \in [1 .. ndraws -> 0 .. Max2(Len(in.models), 1) - 1] :
             sched_out' = Some(generate_model_schedule(in.num_retries, in.models,
                                                       in.cycle_method, draws))
    /\ UNCHANGED <<cfgvars, spvars, schema_file, system_prompt, runvars, sched_in,
                   callvars>>

SchedNext == GenerateModelSchedule

SchedSpec == SchedInit /\ [][SchedNext]_vars

\* ------------------------------------------------------------------------
\* Texts and the unrequested-LIMIT stripper
\* ------------------------------------------------------------------------
\* A text is a sequence of tokens.  A token is a maximal run of word
\* characters (kind "word", or "num" when all of them are digits), a run of
\* white space ("ws") or one punctuation character ("punct"); caps says that
\* the run has an upper-case letter.  Two runs of word characters are never
\* adjacent in a text.
Tok(kind, s, caps) == [kind |-> kind, s |-> s, caps |-> caps]

W(s) == Tok("word", s, FALSE)

U(s) == Tok("word", s, TRUE)

N(s) == Tok("num", s, FALSE)

P(s) == Tok("punct", s, FALSE)

Sp == Tok("ws", " ", FALSE)

Nl == Tok("ws", "\n", FALSE)

\* str.lower()
lower(text) == [i \in 1 .. Len(text) |-> [text[i] EXCEPT !.caps = FALSE]]

\* The first position from p on that does not hold white space: where \s*
\* ends when it starts at p.
RECURSIVE SkipWs(_, _)
SkipWs(text, p) ==
    IF p <= Len(text) /\ text[p].kind = "ws" THEN SkipWs(text, p + 1) ELSE p

\* \bw1\s+w2\s+...\s+wk matched at position p with the characters compared as
\* they are: the position after the match, or 0.
RECURSIVE MatchWords(_, _, _)
MatchWords(text, p, words) ==
    IF words = <<>>
    THEN p
    ELSE IF p <= Len(text) /\ text[p] = W(Head(words))
         THEN IF Tail(words) = <<>>
              THEN p + 1
              ELSE IF SkipWs(text, p + 1) > p + 1
                   THEN MatchWords(text, SkipWs(text, p + 1), Tail(words))
                   ELSE 0
         ELSE 0

\* \s+\d+\b matched at position p: the position after the match, or 0.
MatchCount(text, p) ==
    LET q == SkipWs(text, p)
    IN  IF p > 0 /\ q > p /\ q <= Len(text) /\ text[q].kind = "num"
        THEN q + 1
        ELSE 0

\* The patterns of _user_requested_limit, each as the words before \s+\d+\b.
LimitPatterns ==
    {<<"limit">>, <<"top">>, <<"first">>, <<"last">>, <<"at", "most">>,
     <<"no", "more", "than">>, <<"maximum">>, <<"minimum">>, <<"only">>,
     <<"return">>, <<"show">>, <<"row">>, <<"rows">>, <<"sample">>}

\* _user_requested_limit with the text searched as given, not lowered.
user_requested_limit_case_sensitive(text) ==
    \E pat \in LimitPatterns : \E p \in 1 .. Len(text) :
        MatchCount(text, MatchWords(text, p, pat)) > 0

\* _user_requested_limit
user_requested_limit(text) ==
    LET lowered == lower(text)
    IN  \E pat \in LimitPatterns : \E p \in 1 .. Len(lowered) :
            MatchCount(lowered, MatchWords(lowered, p, pat)) > 0

\* The word w at position p under re.IGNORECASE.
IsWordIgnoreCase(text, p, w) ==
    p <= Len(text) /\ text[p].kind = "word" /\ text[p].s = w

\* \s+limit\s+\d+(?:\s+offset\s+\d+)? matched at position p, the optional
\* group taken when it matches: the position after the match, or 0.
ClauseEnd(text, p) ==
    LET q == SkipWs(text, p)
        r == IF q > p /\ IsWordIgnoreCase(text, q, "limit")
             THEN MatchCount(text, q + 1)
             ELSE 0
        o == IF r > 0 /\ SkipWs(text, r) > r
                /\ IsWordIgnoreCase(text, SkipWs(text, r), "offset")
             THEN MatchCount(text, SkipWs(text, r) + 1)
             ELSE 0
    IN  IF o > 0 THEN o ELSE r

\* clause_re.subn("", sql) from position p on.
RECURSIVE RemoveClauses(_, _)
RemoveClauses(text, p) ==
    IF p > Len(text)
    THEN <<>>
    ELSE IF ClauseEnd(text, p) > 0
         THEN RemoveClauses(text, ClauseEnd(text, p))
         ELSE <<text[p]>> \o RemoveClauses(text, p + 1)

\* re.sub(r"\s+;", ";", text) from position p on.
RECURSIVE CloseUpSemicolons(_, _)
CloseUpSemicolons(text, p) ==
    IF p > Len(text)
    THEN <<>>
    ELSE LET q == SkipWs(text, p)
         IN  IF q > p /\ q <= Len(text) /\ text[q] = P(";")
             THEN <<text[q]>> \o CloseUpSemicolons(text, q + 1)
             ELSE <<text[p]>> \o CloseUpSemicolons(text, p + 1)

\* str.strip()
RECURSIVE strip(_)
strip(text) ==
    IF text # <<>> /\ text[1].kind = "ws" THEN strip(Tail(text))
    ELSE IF text # <<>> /\ text[Len(text)].kind = "ws"
         THEN strip(SubSeq(text, 1, Len(text) - 1))
         ELSE text

\* _strip_unrequested_limit; enabled is self.strip_unrequested_limit.
strip_unrequested_limit(enabled, sql_text, uq, up_text) ==
    IF ~enabled
    THEN sql_text
    ELSE IF user_requested_limit(uq \o <<Nl>> \o up_text)
    THEN sql_text
    ELSE IF ~(\E p \in 1 .. Len(sql_text) : IsWordIgnoreCase(sql_text, p, "limit"))
    THEN sql_text
    ELSE strip(CloseUpSemicolons(RemoveClauses(sql_text, 1), 1))

\* The words of a pattern with single spaces between them, in lower case or
\* in capitals.
RECURSIVE Spaced(_, _)
Spaced(words, caps) ==
    IF words = <<>>
    THEN <<>>
    ELSE <<Tok("word", Head(words), caps)>>
         \o (IF Tail(words) = <<>> THEN <<>> ELSE <<Sp>> \o Spaced(Tail(words), caps))

\* Questions: every pattern with a number, in lower case and in capitals, and
\* texts that come close to a pattern without containing one.
Questions ==
    {<<W("list"), Sp>> \o Spaced(pat, caps) \o <<Sp, N("5"), Sp, W("drugs")>> :
        pat \in LimitPatterns, caps \in BOOLEAN}
    \cup
    {<<W("drugs"), Sp, W("for"), Sp, W("cancer")>>,
     <<W("top"), Sp, W("ten"), Sp, W("drugs")>>,
     <<W("top"), P("-"), N("5"), Sp, W("drugs")>>,
     <<W("top5"), Sp, W("drugs")>>,
     <<W("stop"), Sp, N("5"), Sp, W("drugs")>>,
     <<N("5"), Sp, W("top"), Sp, W("drugs")>>,
     <<W("drugs"), Sp, W("in"), Sp, W("the"), Sp, W("top")>>}

\* Prompts UP_n.
UserPrompts ==
    {<<>>,
     <<W("find"), Sp, W("approved"), Sp, W("drugs")>>,
     <<N("5"), Sp, W("approved"), Sp, W("drugs")>>,
     <<W("give"), Sp, U("at"), Sp, U("most"), Sp, Sp, N("3"), Sp, W("rows")>>,
     <<W("order"), Sp, W("by"), Sp, W("name"), P(","), Sp, U("limit"), Nl, N("10")>>}

SelectFrom == <<U("select"), Sp, W("x"), Sp, U("from"), Sp, W("t")>>

\* SQL texts handed to the stripper.
SqlTexts ==
    {SelectFrom,
     SelectFrom \o <<Sp, U("limit"), Sp, N("10")>>,
     SelectFrom \o <<Nl, W("limit"), Sp, N("10"), Sp, W("offset"), Sp, N("5"), P(";")>>,
     SelectFrom \o <<Sp, U("limit"), Sp, N("10"), Sp, P(";")>>,
     SelectFrom \o <<Sp, P(";")>>,
     SelectFrom \o <<Sp, U("order"), Sp, U("by"), Sp, W("limit"), Sp, P(";")>>,
     <<U("select"), Sp, W("limit_col"), Sp, U("from"), Sp, W("t")>>,
     <<U("select"), Sp, W("x"), Sp, U("from"), Sp, P("(")>> \o SelectFrom
        \o <<Sp, U("limit"), Sp, N("5"), P(")"), Sp, U("limit"), Sp, N("10")>>}

StripInputs ==
    {[fn |-> "strip_unrequested_limit", enabled |-> e, sql |-> s, uq |-> q, up |-> u] :
        e \in BOOLEAN, s \in SqlTexts, q \in Questions, u \in UserPrompts}

\* ------------------------------------------------------------------------
\* Result sampling
\* ------------------------------------------------------------------------
\* int(round(a / b)) for a >= 0, b > 0: Python rounds a tie to the even
\* neighbour.  For the table sizes of the model the floating-point value the
\* code rounds lies on the same side of the tie as the exact quotient.
RoundHalfEven(a, b) ==
    LET q == a \div b
        r == a % b
    IN  IF 2 * r < b THEN q
        ELSE IF 2 * r > b THEN q + 1
        ELSE IF q % 2 = 0 THEN q ELSE q + 1

\* list(range(k))
RangeList(k) == [i \in 1 .. k |-> i - 1]

\* seq[:k] for k >= 0
Prefix(seq, k) == SubSeq(seq, 1, Min2(k, Len(seq)))

RECURSIVE Sum(_)
Sum(seq) == IF seq = <<>> THEN 0 ELSE Head(seq) + Sum(Tail(seq))

\* The row indices sample_result_rows picks for a table of n >= 1 rows.
uniform_indices(n, max_samples) ==
    IF n <= max_samples
    THEN RangeList(n)
    ELSE IF max_samples <= 9
    THEN LET head == 0 .. Min2(3, n) - 1
             mid_start == Max2(0, (n \div 2) - 1)
             mid  == IF n > 6
                     THEN {mid_start + i : i \in 0 .. Min2(3, n - mid_start) - 1}
                     ELSE {}
             tail == IF n > 9 THEN Max2(0, n - 3) .. n - 1 ELSE {}
         IN  Prefix(Ascending(head \cup mid \cup tail), max_samples)
    ELSE LET spaced  == {RoundHalfEven(i * (n - 1), max_samples - 1) :
                            i \in 0 .. max_samples - 1}
             missing == Ascending((0 .. n - 1) \ spaced)
         IN  IF Cardinality(spaced) < max_samples
             THEN Ascending(Range(Prefix(Ascending(spaced) \o missing, max_samples)))
             ELSE Ascending(spaced)

\* The label loop of both samplers: rows are the rows emitted, each named by
\* its 0-based index in the table (data), indices the list the labels are
\* computed from, height the number of rows of the table.
label_rows(indices, rows, height) ==
    [local_i \in 1 .. Len(rows) |->
        LET idx == IF local_i <= Len(indices) THEN indices[local_i] ELSE local_i - 1
        IN  [position |-> IF idx < 3 THEN "head"
                          ELSE IF idx >= height - 3 THEN "tail" ELSE "middle",
             row      |-> idx + 1,
             data     |-> rows[local_i]]]

\* sample_result_rows for a table of n rows; take_ok says that
\* DataFrame.take returns the rows asked for instead of raising.
sample_result_rows(n, max_samples, take_ok) ==
    IF n = 0
    THEN <<>>
    ELSE IF take_ok
    THEN label_rows(uniform_indices(n, max_samples),
                    uniform_indices(n, max_samples), n)
    ELSE LET sampled == RangeList(Min2(max_samples, n))
         IN  label_rows(RangeList(Len(sampled)), sampled, n)

\* _evenly_spaced_indices
evenly_spaced_indices(count, max_items) ==
    IF count <= 0 \/ max_items <= 0 THEN <<>>
    ELSE IF max_items >= count THEN RangeList(count)
    ELSE IF max_items = 1 THEN <<0>>
    ELSE Ascending({RoundHalfEven(i * (count - 1), max_items - 1) :
                       i \in 0 .. max_items - 1})

\* sorted(range(group_count), key=lambda i: sizes[i], reverse=True): the
\* 1-based positions by descending size, equal sizes in their given order.
RECURSIVE by_size_descending(_, _)
by_size_descending(sizes, left) ==
    IF left = {}
    THEN <<>>
    ELSE LET first == CHOOSE i \in left :
                          \A j \in left : \/ sizes[i] > sizes[j]
                                          \/ (sizes[i] = sizes[j] /\ i <= j)
         IN  <<first>> \o by_size_descending(sizes, left \ {first})

\* The loop that spreads diff over extras, from its step i on.
RECURSIVE spread_diff(_, _, _, _)
spread_diff(extras, order, i, diff) ==
    IF i >= (IF diff < 0 THEN 0 - diff ELSE diff)
    THEN extras
    ELSE LET idx == order[(i % Len(order)) + 1]
         IN  IF diff < 0 /\ extras[idx] = 0
             THEN spread_diff(extras, order, i + 1, diff)
             ELSE spread_diff([extras EXCEPT ![idx] = @ + (IF diff > 0 THEN 1 ELSE 0 - 1)],
                              order, i + 1, diff)

\* per_group for the group sizes of the selected groups.
per_group(sizes, target_total) ==
    LET group_count == Len(sizes)
        remaining   == Max2(0, target_total - group_count)
        total_size  == IF Sum(sizes) = 0 THEN 1 ELSE Sum(sizes)
        extras      == [g \in 1 .. group_count |->
                           RoundHalfEven(remaining * sizes[g], total_size)]
        diff        == remaining - Sum(extras)
        spread      == IF diff # 0
                       THEN spread_diff(extras, by_size_descending(sizes, 1 .. group_count),
                                        0, diff)
                       ELSE extras
    IN  IF remaining > 0
        THEN [g \in 1 .. group_count |-> 1 + spread[g]]
        ELSE [g \in 1 .. group_count |-> 1]

\* The groups of group_by(...).sort(...): the keys that occur, ascending.
group_keys(keys) == Ascending(Range(keys))

\* The _row_idx list of a group: the 0-based indices of its rows, ascending.
row_list(keys, key) == Ascending({i - 1 : i \in {j \in 1 .. Len(keys) : keys[j] = key}})

\* The 1-based positions in group_keys of the groups that are sampled.
selected_groups(group_count, max_samples) ==
    IF group_count > max_samples
    THEN [k \in 1 .. Len(evenly_spaced_indices(group_count, max_samples)) |->
             evenly_spaced_indices(group_count, max_samples)[k] + 1]
    ELSE [k \in 1 .. group_count |-> k]

\* sample_indices before sorted(set(...)): the rows chosen in each group.
stratified_indices(keys, max_samples) ==
    LET all_keys == group_keys(keys)
        chosen   == selected_groups(Len(all_keys), max_samples)
        lists    == [k \in 1 .. Len(chosen) |-> row_list(keys, all_keys[chosen[k]])]
        sizes    == [k \in 1 .. Len(chosen) |-> Len(lists[k])]
        quota    == per_group(sizes, Min2(max_samples, Len(keys)))
    IN  UNION {IF lists[k] = <<>> \/ Min2(quota[k], Len(lists[k])) <= 0
               THEN {}
               ELSE {lists[k][pos + 1] :
                        pos \in Range(evenly_spaced_indices(Len(lists[k]),
                                                           Min2(quota[k], Len(lists[k]))))}
               : k \in 1 .. Len(chosen)}

Returned(value) == [status |-> "returned", value |-> value]

RaisedError(name) == [status |-> "raised", value |-> name]

\* sample_result_rows_stratified for a table whose row i has the strata key
\* keys[i + 1]; strata_ok says that strata_cols is non-empty and names
\* columns of the table.
sample_result_rows_stratified(keys, strata_ok, max_samples, take_ok) ==
    LET height == Len(keys)
    IN  IF height = 0
        THEN Returned(<<>>)
        ELSE IF ~strata_ok
        THEN Returned(sample_result_rows(height, max_samples, take_ok))
        ELSE IF Len(group_keys(keys)) > max_samples /\ ~take_ok
        THEN RaisedError("take")
        ELSE LET sample_indices == Ascending(stratified_indices(keys, max_samples))
             IN  IF sample_indices = <<>>
                 THEN Returned(sample_result_rows(height, max_samples, take_ok))
                 ELSE IF take_ok
                 THEN Returned(label_rows(sample_indices, sample_indices, height))
                 ELSE Returned(label_rows(sample_indices,
                                          RangeList(Min2(max_samples, height)), height))

\* The values of the strata columns, numbered in their sort order.
StrataKeys == 1 .. 3

UniformInputs ==
    {[fn |-> "sample_result_rows", n |-> n, max_samples |-> ms, take_ok |-> ok] :
        n \in 0 .. MaxRows, ms \in 1 .. MaxSamples, ok \in BOOLEAN}

\* The stratified sampler on every table of up to max_rows rows.
StratifiedInputs(max_rows) ==
    {[fn |-> "sample_result_rows_stratified", keys |-> ks, strata_ok |-> so,
      max_samples |-> ms, take_ok |-> ok] :
        ks \in UNION {[1 .. n -> StrataKeys] : n \in 0 .. max_rows},
        so \in BOOLEAN, ms \in 1 .. MaxStratSamples, ok \in BOOLEAN}

\* ------------------------------------------------------------------------
\* Sizing of RES_n for the judge
\* ------------------------------------------------------------------------
MinSamples == 200

MaxSampleRows == 1000

DefaultCellLen == 60

DefaultSampleRows == 9

CharsPerToken == 4

\* The per-cell widths tried after the default one.
AltCellLens == <<50, 40, 30>>

\* A result table as far as its size goes: height rows of ncols columns, every
\* cell a string of cell_chars characters, every column name of name_chars.
Table(height, ncols, cell_chars, name_chars) ==
    [height |-> height, ncols |-> ncols, cell_chars |-> cell_chars,
     name_chars |-> name_chars]

\* _estimate_tokens of a text of the given length
estimate_tokens(chars) ==
    IF chars = 0 THEN 0 ELSE Max2(1, chars \div CharsPerToken)

\* len(_truncate_cell(v, max_len)) for a cell of cell_chars characters
truncated_len(cell_chars, max_len) ==
    IF cell_chars > max_len THEN (max_len - 3) + 3 ELSE cell_chars

\* len(str(t)) for a tuple t of ncols strings of cell_len characters each
tuple_repr_len(ncols, cell_len) ==
    IF ncols = 0 THEN 2
    ELSE IF ncols = 1 THEN (cell_len + 2) + 3
    ELSE ncols * (cell_len + 2) + 2 * (ncols - 1) + 2

\* _estimate_sample_row_tokens
estimate_sample_row_tokens(table, max_cell_len) ==
    IF table = None \/ table[1].height = 0
    THEN 0
    ELSE estimate_tokens(
             tuple_repr_len(table[1].ncols,
                            truncated_len(table[1].cell_chars, max_cell_len)) + 20)

\* _estimate_full_result_tokens
estimate_full_result_tokens(table) ==
    IF table[1].height = 0
    THEN 0
    ELSE LET t      == table[1]
             avg    == t.ncols * t.cell_chars + Max2(0, t.ncols - 1)
             header == t.ncols * t.name_chars + Max2(0, t.ncols - 1)
         IN  estimate_tokens(header + (avg + 1) * t.height)

\* int(available_tokens * 0.6)
row_budget(available_tokens) == (6 * available_tokens) \div 10

\* The loop over the narrower cell widths from position k on: the pair it
\* returns, or None when it falls through.
RECURSIVE narrower_cells(_, _, _)
narrower_cells(table, budget, k) ==
    IF k > Len(AltCellLens)
    THEN None
    ELSE LET tokens_per_row == estimate_sample_row_tokens(table, AltCellLens[k])
         IN  IF tokens_per_row <= 0
             THEN narrower_cells(table, budget, k + 1)
             ELSE IF Max2(1, budget \div tokens_per_row) >= MinSamples
                  THEN Some(<<MinSamples, AltCellLens[k]>>)
                  ELSE narrower_cells(table, budget, k + 1)

\* _choose_sample_params: <<sample size, per-cell width>>; available_tokens
\* is Optional.
choose_sample_params(table, available_tokens) ==
    IF table = None \/ table[1].height = 0
    THEN <<0, DefaultCellLen>>
    ELSE LET height == table[1].height
             cap    == Min2(height, MaxSampleRows)
             unbudgeted == <<Max2(1, Min2(cap, Max2(MinSamples, cap))), DefaultCellLen>>
         IN  IF available_tokens = None \/ available_tokens[1] <= 0
             THEN unbudgeted
             ELSE LET budget         == row_budget(available_tokens[1])
                      tokens_per_row == estimate_sample_row_tokens(table, DefaultCellLen)
                      max_by_budget  == Max2(1, budget \div tokens_per_row)
                      target == Min2(cap, Max2(MinSamples,
                                               Min2(MaxSampleRows, max_by_budget)))
                  IN  IF tokens_per_row <= 0
                      THEN unbudgeted
                      ELSE IF target < MinSamples /\ height >= MinSamples
                                /\ narrower_cells(table, budget, 1) # None
                           THEN narrower_cells(table, budget, 1)[1]
                           ELSE <<target, DefaultCellLen>>

\* int(context_limit * 0.9) - base_tokens
available_for_result(context_limit, base_tokens) ==
    ((9 * context_limit) \div 10) - base_tokens

\* _summarize_result with its sizing arguments, for a table without strata
\* columns: the fields of the summary text and the samples.
summarize_result_sized(table, error, res_mode, sample_rows, sample_cell_len, take_ok) ==
    IF error # None
    THEN [status |-> "ERROR", error |-> error, res_mode |-> None, row_count |-> 0,
          samples |-> <<>>, sample_cell_len |-> sample_cell_len]
    ELSE IF table = None
    THEN [status |-> "ERROR", error |-> Some("no result"), res_mode |-> None,
          row_count |-> 0, samples |-> <<>>, sample_cell_len |-> sample_cell_len]
    ELSE LET max_samples == IF sample_rows # None THEN sample_rows[1]
                            ELSE DefaultSampleRows
         IN  [status |-> "OK", error |-> None, res_mode |-> Some(res_mode),
              row_count |-> table[1].height,
              samples |-> sample_result_rows(table[1].height, max_samples, take_ok),
              sample_cell_len |-> sample_cell_len]

\* The sizing with the whole context taken as room for the result.
choose_res_mode_no_margin(success, table, context_limit, base_tokens) ==
    IF success /\ table # None /\ context_limit # None /\ context_limit[1] # 0
       /\ context_limit[1] - base_tokens > 0
       /\ estimate_full_result_tokens(table) <= context_limit[1] - base_tokens
    THEN "full" ELSE "sample"

\* The value of res_mode in stage RES_n of query(): "sample" unless the
\* execution succeeded, _judge_context_limit returned a context length and
\* `available > 0 and est_full <= available`.
choose_res_mode(success, table, context_limit, base_tokens) ==
    IF success /\ table # None /\ context_limit # None /\ context_limit[1] # 0
       /\ available_for_result(context_limit[1], base_tokens) > 0
       /\ estimate_full_result_tokens(table)
             <= available_for_result(context_limit[1], base_tokens)
    THEN "full" ELSE "sample"

\* The RES_n stage of query() after execute_query_with_timeout has returned
\* <<success, table, error>>: the choice of res_mode, of the sample
\* parameters and the summary.  context_limit is what _judge_context_limit
\* returns (Optional), base_tokens the estimate for the scaffold; headroom is
\* the local variable `available` of the code.
res_stage(success, table, error, context_limit, base_tokens, take_ok) ==
    LET sized     == success /\ table # None
                     /\ context_limit # None /\ context_limit[1] # 0
        headroom  == IF sized THEN available_for_result(context_limit[1], base_tokens)
                     ELSE 0
        available_tokens == IF sized THEN Some(Max2(0, headroom)) ELSE None
        res_mode  == choose_res_mode(success, table, context_limit, base_tokens)
        sampled   == success /\ table # None /\ res_mode = "sample"
        params    == choose_sample_params(table, available_tokens)
        sample_rows     == IF sampled THEN Some(params[1]) ELSE None
        sample_cell_len == IF sampled THEN params[2] ELSE DefaultCellLen
    IN  summarize_result_sized(table, IF success THEN None ELSE error,
                               res_mode, sample_rows, sample_cell_len, take_ok)

\* Tables for the choice of the sample parameters: small and large, narrow
\* and wide.
LargeTables ==
    {Some(Table(h, c, w, 8)) :
        h \in {0, 1, MinSamples - 50, MinSamples, MaxSampleRows, MaxSampleRows + 1,
               5 * MaxSampleRows},
        c \in {1, 3}, w \in {4, 45, 80}}

TokenBudgets == {None} \cup {Some(a) : a \in {0, 50, 500, 5000, 20000, 100000, 1000000}}

ChooseInputs ==
    {[fn |-> "choose_sample_params", table |-> t, available_tokens |-> a] :
        t \in LargeTables \cup {None}, a \in TokenBudgets}

\* What execute_query_with_timeout hands to the RES_n stage: a table of up to
\* MaxRows rows, or a failure.
ExecOutcomes ==
    {<<TRUE, Some(Table(h, c, 10, 8)), None>> : h \in 0 .. MaxRows, c \in {1, 3}}
    \cup {<<FALSE, None, Some("Query timed out")>>,
          <<FALSE, None, Some("no such column")>>}

ContextLimits == {None, Some(0), Some(100), Some(1000), Some(8000)}

BaseTokens == {50, 900, 3000}

ResStageInputs ==
    {[fn |-> "res_stage", exec |-> x, context_limit |-> c, base_tokens |-> b,
      take_ok |-> ok] :
        x \in ExecOutcomes, c \in ContextLimits, b \in BaseTokens, ok \in BOOLEAN}

\* ------------------------------------------------------------------------
\* Helper functions called alone
\* ------------------------------------------------------------------------
\* _ensure_judge_provider_for_attempt_with_offset: the judge model of retry
\* `offset` of the iteration with index attempt_idx; schedule is
\* self.judge_model_schedule (empty for a single judge model).
judge_model_at(schedule, judge_model, idx, offset) ==
    IF schedule # <<>>
    THEN schedule[((idx + offset) % Len(schedule)) + 1]
    ELSE judge_model

\* The path _save_malformed_judge_output writes, with the text written.
MalformedFile(n, idx, offset, model, text) ==
    [dir |-> "logs/judge_malformed", n |-> n, attempt_idx |-> idx,
     offset |-> offset, model |-> model, text |-> text]

\* One pass of the retry loop of _call_judge (offset = i - 1) on the
\* Optional text generate_text returned: how the pass ends and the file it
\* writes.
judge_attempt(in, i, response) ==
    LET model == judge_model_at(in.schedule, in.judge_model, in.attempt_idx, i - 1)
        Pass(kind, saved) ==
            [offset |-> i - 1, model |-> model, kind |-> kind, saved |-> saved]
    IN  IF response = None
        THEN Pass("nil", None)
        ELSE LET text     == response[1]
                 decision == parse_judge_output(text)[1]
                 score    == parse_judge_output(text)[2]
             IN  IF decision = None \/ score = None
                 THEN Pass("malformed",
                           Some(MalformedFile(in.attempt_idx + 1, in.attempt_idx,
                                              i - 1, model, text)))
                 ELSE IF decision = Some(TRUE) /\ score[1] < in.threshold
                 THEN Pass("invariant", None)
                 ELSE IF decision = Some(FALSE) /\ score[1] >= in.threshold
                 THEN Pass("invariant", None)
                 ELSE Pass("accepted", None)

\* _call_judge on the responses in.responses of the judge providers, from
\* retry number i on: the tuple returned and the passes made.
RECURSIVE call_judge_passes(_, _, _, _)
call_judge_passes(in, i, last_text, passes) ==
    IF i \notin RetryRange(in.retries)
    THEN IF last_text = None
         THEN [decision |-> None, score |-> None, text |-> JudgeFailedText,
               passes |-> passes]
         ELSE [decision |-> parse_judge_output(last_text[1])[1],
               score    |-> parse_judge_output(last_text[1])[2],
               text     |-> last_text[1],
               passes   |-> passes]
    ELSE LET response == in.responses[i]
             pass     == judge_attempt(in, i, response)
         IN  IF pass.kind = "accepted"
             THEN [decision |-> parse_judge_output(response[1])[1],
                   score    |-> parse_judge_output(response[1])[2],
                   text     |-> response[1],
                   passes   |-> Append(passes, pass)]
             ELSE call_judge_passes(in, i + 1,
                                    IF response = None THEN last_text ELSE response,
                                    Append(passes, pass))

\* Judge model lists of the controller: one model, or a schedule.
JudgeSchedules == {<<>>, <<"model_a", "model_b">>}

CallJudgeInputs ==
    UNION {{[fn |-> "_call_judge", responses |-> r, retries |-> k, threshold |-> t,
             attempt_idx |-> a, schedule |-> sch, judge_model |-> "model_a"] :
               r \in [1 .. Max2(1, k) -> JudgeResponses],
               t \in Scores, a \in 0 .. 1, sch \in JudgeSchedules} :
           k \in 0 .. MaxJudgeRetries}

\* (filter_profile or 'strict').strip().lower()
normalized_profile(filter_profile) ==
    CASE filter_profile = "" -> "strict"
      [] filter_profile = " Relaxed" -> "relaxed"
      [] OTHER -> filter_profile

\* The model list after the min-context filter of __init__: contexts are the
\* context lengths of the listed models; with no context map to be had the
\* list is left as it is.
filtered_by_context(contexts, min_context, map_ok) ==
    LET Fits(c) == c >= min_context
    IN  IF map_ok THEN SelectSeq(contexts, Fits) ELSE contexts

\* `if self.min_context > 0 and not base_list: raise RuntimeError(...)`, which
\* __init__ reaches for a model list that was asked for and provider
\* 'openrouter'.
no_models_meet_context(in, contexts) ==
    /\ contexts # None
    /\ in.provider = "openrouter"
    /\ in.min_context > 0
    /\ filtered_by_context(contexts[1], in.min_context, in.map_ok) = <<>>

\* What a call of the constructor leaves behind: how it ended, the number of
\* providers it created, the database file and whether the schema document
\* was written.
Construction(how, providers, database, docs_written) ==
    [outcome |-> how, providers |-> providers, db |-> database,
     docs_written |-> docs_written]

\* sqlite3.connect(db_path): opens the file read-write and creates an empty
\* one when there is none; it fails when the directory does not exist.
sqlite_connect(database) == [database EXCEPT !.exists = TRUE]

\* ChEMBLLLMQuery.__init__ in the order of its statements.
construct(in, database) ==
    IF ~in.db_dir_exists
    THEN Construction("OperationalError", 0, database, FALSE)
    ELSE LET opened == sqlite_connect(database)
         IN  IF normalized_profile(in.filter_profile) \notin {"strict", "relaxed"}
             THEN Construction("ValueError", 0, opened, FALSE)
             ELSE IF no_models_meet_context(in, in.sql_contexts)
             THEN Construction("RuntimeError", 0, opened, FALSE)
             ELSE IF no_models_meet_context(in, in.judge_contexts)
             THEN Construction("RuntimeError", 0, opened, FALSE)
             ELSE IF ~opened.exists
             THEN (IF in.schema_docs_exist
                   THEN Construction("constructed", 2, opened, FALSE)
                   ELSE Construction("FileNotFoundError", 0, opened, FALSE))
             ELSE Construction("constructed", 2, opened,
                               ~in.schema_docs_exist \/ in.schema_docs_stale
                               \/ ~database.exists)

\* Context lengths of the models of a list that was asked for, or None.
ModelContexts == {None, Some(<<4, 4>>), Some(<<4, 16>>)}

ConstructInputs ==
    {[fn |-> "__init__", db_exists |-> e, db_dir_exists |-> d,
      schema_docs_exist |-> sd, schema_docs_stale |-> st, filter_profile |-> fp,
      provider |-> pr, min_context |-> mc, map_ok |-> ok, sql_contexts |-> sc,
      judge_contexts |-> jc] :
        e \in BOOLEAN, d \in BOOLEAN, sd \in BOOLEAN, st \in BOOLEAN,
        fp \in {"", "strict", " Relaxed", "loose"},
        pr \in {"openrouter", "local"}, mc \in {0, 8}, ok \in BOOLEAN,
        sc \in ModelContexts, jc \in ModelContexts}

\* The back-ends create_provider can name.
Backends ==
    {"anthropic", "openrouter", "openai", "gemini", "zai", "cerebras", "deepseek",
     "local"}

\* The back-ends that reach their model over HTTP.
HttpBackends == Backends \ {"local"}

\* The credential variable each HTTP back-end reads in its __init__.
credential_of(backend) ==
    CASE backend = "anthropic"  -> "ANTHROPIC_API_KEY"
      [] backend = "openrouter" -> "OPENROUTER_API_KEY"
      [] backend = "openai"     -> "OPENAI_API_KEY"
      [] backend = "gemini"     -> "GEMINI_API_KEY"
      [] backend = "cerebras"   -> "CEREBRAS_API_KEY"
      [] backend = "zai"        -> "ZAI_API_KEY"
      [] backend = "deepseek"   -> "DEEPSEEK_API_KEY"

Credentials == {credential_of(b) : b \in HttpBackends}

\* The elif chain of auto mode after the Claude test, in its order.
AutoOrder == <<"openrouter", "openai", "gemini", "cerebras", "zai">>

\* The provider object a back-end's __init__ leaves: the constructors log a
\* warning when the credential is absent and return; is_available() is
\* bool(self.api_key), and for the local back-end that the model loaded.
Provider(backend, env) ==
    [status    |-> "returned",
     backend   |-> backend,
     available |-> IF backend = "local"
                   THEN env.local_loads
                   ELSE credential_of(backend) \in env.keys]

RECURSIVE auto_chain(_, _)
auto_chain(i, env) ==
    IF i > Len(AutoOrder)
    THEN Provider("local", env)
    ELSE IF credential_of(AutoOrder[i]) \in env.keys
         THEN Provider(AutoOrder[i], env)
         ELSE auto_chain(i + 1, env)

\* create_provider(provider, model): env holds the credential variables
\* that are set, TEXT2SQL_PROVIDER, whether the anthropic package imports
\* and whether the local model loads; is_claude is _is_claude_model(model).
create_provider(provider, is_claude, env) ==
    LET named == IF provider = ""
                 THEN (IF env.text2sql_provider # ""
                       THEN env.text2sql_provider
                       ELSE "openrouter")
                 ELSE provider
    IN  IF named = "auto"
        THEN IF is_claude /\ env.has_anthropic /\ "ANTHROPIC_API_KEY" \in env.keys
             THEN Provider("anthropic", env)
             ELSE auto_chain(1, env)
        ELSE IF named = "anthropic"
        THEN IF ~env.has_anthropic
             THEN RaisedError("ValueError")
             ELSE Provider("anthropic", env)
        ELSE IF named \in Backends
        THEN Provider(named, env)
        ELSE RaisedError("ValueError")

\* The environments in which the credential variables set are one of
\* keysets and TEXT2SQL_PROVIDER is one of names.
Environments(keysets, names) ==
    {[keys |-> k, text2sql_provider |-> t, has_anthropic |-> h, local_loads |-> l] :
        k \in keysets, t \in names, h \in BOOLEAN, l \in BOOLEAN}

\* auto mode under every combination of the credential variables; a named
\* back-end with no credential, its own and all of them; no provider named,
\* with and without TEXT2SQL_PROVIDER.
CreateProviderInputs ==
    {[fn |-> "create_provider", provider |-> "auto", is_claude |-> c, env |-> e] :
        c \in BOOLEAN, e \in Environments(SUBSET Credentials, {""})}
    \cup UNION {{[fn |-> "create_provider", provider |-> pr, is_claude |-> FALSE,
                  env |-> e] :
                    e \in Environments({{}, Credentials}
                                       \cup (IF pr \in HttpBackends
                                             THEN {{credential_of(pr)}}
                                             ELSE {}),
                                       {""})} :
                 pr \in Backends \cup {"mistral"}}
    \cup {[fn |-> "create_provider", provider |-> "", is_claude |-> FALSE, env |-> e] :
            e \in Environments({{}, Credentials}, {"", "zai"})}

\* The prompt a back-end builds from question and schema_docs.
LegacyPrompt(question, docs) ==
    [kind |-> "legacy", question |-> question, schema_docs |-> docs,
     messages |-> <<>>]

\* The messages array handed to the model as it was given.
ConversationPrompt(messages) ==
    [kind |-> "conversation", question |-> "", schema_docs |-> "",
     messages |-> messages]

\* `if conversation_history:` for an Optional list.
conversation_given(conversation) == conversation # None /\ conversation[1] # <<>>

\* generate_sql up to the call of the model: the Optional prompt sent.  The
\* HTTP back-ends take the conversation when one is given; the local
\* back-end always builds its own prompt.
generate_sql_prompt(backend, is_available, question, docs, conversation) ==
    IF ~is_available
    THEN None
    ELSE IF backend = "local"
    THEN Some(LegacyPrompt(question, docs))
    ELSE IF conversation_given(conversation)
    THEN Some(ConversationPrompt(conversation[1]))
    ELSE Some(LegacyPrompt(question, docs))

\* The conversation_history argument: absent, an empty list, or the
\* [system, user] messages of _build_messages_for_sql.
Conversations == {None, Some(<<>>), Some(<<"system: SP", "user: SQL task">>)}

GenerateSqlInputs ==
    {[fn |-> "generate_sql", backend |-> b, is_available |-> a, question |-> "UP_1",
      schema_docs |-> "schema_v1", conversation |-> c] :
        b \in Backends, a \in BOOLEAN, c \in Conversations}

\* What the HTTP request of generate_text meets: the transport outcome, and
\* for a well-formed response the message's content and reasoning_content
\* fields ("missing", "null", "empty" for "" or "text").
HttpResponse(transport, content, reasoning) ==
    [transport |-> transport, content |-> content, reasoning_content |-> reasoning]

HttpResponses ==
    {HttpResponse(t, "missing", "missing") :
        t \in {"timeout", "http_error", "not_json", "wrong_shape"}}
    \cup {HttpResponse("ok", c, r) : c \in {"missing", "null", "empty", "text"},
                                      r \in {"missing", "null", "text"}}

\* The statements of generate_text that take the text out of a well-formed
\* response, per back-end; None where they raise into `except Exception`
\* or return None themselves.
\*   openrouter: data['choices'][0]['message']['content'].strip()
\*   zai, cerebras: message.get('content', '').strip()
\*   deepseek: content = message.get('content'); if content is None:
\*             content = message.get('reasoning_content', ''); str(content).strip()
\*   openai, gemini: _extract_output_text, `text.strip() if text else None`
\*   anthropic: response.content[0].text.strip()
extract_content(backend, response) ==
    LET content == response.content
    IN  CASE backend \in {"openrouter", "anthropic"} ->
               (CASE content \in {"missing", "null"} -> None
                  [] content = "empty" -> Some("")
                  [] OTHER -> Some("text"))
          [] backend \in {"zai", "cerebras"} ->
               (CASE content = "null" -> None
                  [] content \in {"missing", "empty"} -> Some("")
                  [] OTHER -> Some("text"))
          [] backend = "deepseek" ->
               (CASE content = "text" -> Some("text")
                  [] content = "empty" -> Some("")
                  [] response.reasoning_content = "missing" -> Some("")
                  [] response.reasoning_content = "null" -> Some("None")
                  [] OTHER -> Some("reasoning text"))
          [] OTHER ->
               (CASE content = "text" -> Some("text")
                  [] OTHER -> None)

\* generate_text of an HTTP back-end with its credential present: the
\* except clauses return None for a timeout, an error status and a body that
\* does not decode or lacks choices[0].message.
generate_text(backend, response) ==
    IF response.transport # "ok"
    THEN Returned(None)
    ELSE Returned(extract_content(backend, response))

GenerateTextInputs ==
    {[fn |-> "generate_text", backend |-> b, response |-> r] :
        b \in HttpBackends, r \in HttpResponses}

\* A JSON value of the "score" key by its type: a number (times
\* ScoreScale), a string holding a number, another string, a boolean, null, or
\* the key missing.
JsonScore(type, value) == [type |-> type, value |-> value]

JsonScores ==
    {JsonScore("number", n) : n \in 0 .. ScoreScale + 1}
    \cup {JsonScore("string", n) : n \in Scores}
    \cup {JsonScore("bool", b) : b \in {0, ScoreScale}}
    \cup {JsonScore(t, 0) : t \in {"text", "null", "missing"}}

\* float(obj.get("score")) under `except Exception: score = None`: float()
\* takes numbers, strings that hold a number and booleans (True is 1.0), and
\* raises on None and on other strings.
score_as_float(score) ==
    IF score.type \in {"number", "string", "bool"} THEN Some(score.value) ELSE None

\* str(obj.get("decision", "")).strip().upper()
decision_upper(decision) ==
    CASE decision \in {"YES", "yes", " Yes "} -> "YES"
      [] decision \in {"NO", "no"} -> "NO"
      [] decision = "maybe" -> "MAYBE"
      [] OTHER -> ""

\* What a judge text holds under the key analysis: a string, a value of
\* another type, or nothing.
JsonAnalyses == {"string", "number", "missing"}

\* The texts of a judge as written: whether a {...} substring decodes to
\* a JSON object, and the values under its decision, score and analysis keys.
JudgeOutputs ==
    {[kind |-> k, decision |-> d, score |-> sc, analysis |-> a] :
        k \in {"json", "nojson", "badjson"},
        d \in {"YES", "yes", " Yes ", "NO", "no", "maybe", ""},
        sc \in JsonScores, a \in JsonAnalyses}

\* The fields parse_judge_output works on after str().upper() and float().
judge_text_of(output) ==
    JudgeText(output.kind, decision_upper(output.decision), score_as_float(output.score))

ParseInputs == {[fn |-> "parse_judge_output", text |-> o] : o \in JudgeOutputs}

\* Texts generate_text of the prompt-writer can return.
UpTexts == {<<>>, <<Sp>>, <<W("find")>>, <<Sp, W("list"), Nl>>}

\* What generate_text of the prompt-writer returns: None or a text.
UpResponses == {None} \cup {Some(t) : t \in UpTexts}

\* The retry loop of _call_prompt_writer on the responses of the provider,
\* from retry number i on: the Optional text returned and the calls made.
RECURSIVE prompt_writer_passes(_, _, _, _)
prompt_writer_passes(responses, retries, i, last_text) ==
    IF i \notin RetryRange(retries)
    THEN [text |-> last_text, calls |-> i - 1]
    ELSE IF responses[i] = None
    THEN prompt_writer_passes(responses, retries, i + 1, last_text)
    ELSE IF strip(responses[i][1]) # <<>>
    THEN [text |-> Some(strip(responses[i][1])), calls |-> i]
    ELSE prompt_writer_passes(responses, retries, i + 1, Some(strip(responses[i][1])))

\* The loop returning the first response that is not None, empty or not.
call_prompt_writer_first_response(responses, retries) ==
    LET Given == {j \in RetryRange(retries) : responses[j] # None}
        first == CHOOSE j \in Given : \A k \in Given : j <= k
    IN  IF Given = {}
        THEN [text |-> None, calls |-> Max2(1, retries)]
        ELSE [text |-> Some(strip(responses[first][1])), calls |-> first]

\* _call_prompt_writer with an available judge provider.
call_prompt_writer(responses, retries) ==
    prompt_writer_passes(responses, retries, 1, None)

\* The class of an Optional prompt-writer text in the controller model.
up_text_class(text) ==
    IF text = None THEN None
    ELSE IF text[1] = <<>> THEN Some("empty") ELSE Some("text")

\* The judge-role provider of the controller: the model self.judge_provider
\* was created for and self.current_judge_model.
JudgeRole(provider, current) == [provider |-> provider, current |-> current]

\* The model chosen without the retry offset.
ensure_judge_provider_no_offset(role, in, offset) ==
    LET model == judge_model_at(in.schedule, in.judge_model, in.attempt_idx, 0)
    IN  IF model # role.current THEN JudgeRole(model, model) ELSE role

\* _ensure_judge_provider_for_attempt_with_offset: the judge role after it.
ensure_judge_provider(role, in, offset) ==
    LET model == judge_model_at(in.schedule, in.judge_model, in.attempt_idx, offset)
    IN  IF model # role.current THEN JudgeRole(model, model) ELSE role

\* A generate_text call of the judge-role provider: the stage and retry offset
\* it was made at, the model of the provider that received it and whether
\* the provider was created anew for it.
RoleCall(stage, offset, before, role) ==
    [stage |-> stage, offset |-> offset, model |-> role.provider,
     rebuilt |-> role # before]

\* The retry loop of _call_prompt_writer from retry number i on, with the
\* judge role it switches: in.up_responses are the classes of the responses.
RECURSIVE prompt_writer_calls(_, _, _, _)
prompt_writer_calls(in, i, role, made) ==
    IF i \notin RetryRange(in.retries)
    THEN [role |-> role, made |-> made, returned |-> FALSE]
    ELSE LET next == ensure_judge_provider(role, in, i - 1)
             now  == Append(made, RoleCall("UP", i - 1, role, next))
         IN  IF in.up_responses[i] = "text"
             THEN [role |-> next, made |-> now, returned |-> TRUE]
             ELSE prompt_writer_calls(in, i + 1, next, now)

\* The retry loop of _call_judge from retry number i on, with the judge role
\* it switches; last is the Optional last text received with the model that
\* produced it.
RECURSIVE judge_calls(_, _, _, _, _)
judge_calls(in, i, role, last, made) ==
    IF i \notin RetryRange(in.retries)
    THEN [role |-> role, made |-> made,
          text |-> IF last = None THEN JudgeFailedText ELSE last[1].text,
          text_model |-> IF last = None THEN None ELSE Some(last[1].model)]
    ELSE LET next     == ensure_judge_provider(role, in, i - 1)
             now      == Append(made, RoleCall("J", i - 1, role, next))
             response == in.responses[i]
         IN  IF judge_attempt(in, i, response).kind = "accepted"
             THEN [role |-> next, made |-> now, text |-> response[1],
                   text_model |-> Some(next.provider)]
             ELSE judge_calls(in, i + 1, next,
                              IF response = None THEN last
                              ELSE Some([text |-> response[1], model |-> next.provider]),
                              now)

\* The judge-role calls of iteration attempt_idx + 1 of query(), entered with
\* the judge role in.role: the calls made, the model _judge_context_limit
\* looks up in stage RES_n and the judge fields of the Iteration appended.
\* Iteration 1 raises when the prompt-writer returned no text.
iteration_judge_role(in) ==
    LET upw == prompt_writer_calls(in, 1, in.role, <<>>)
        j   == judge_calls(in, 1, upw.role, None, upw.made)
    IN  IF ~upw.returned /\ in.attempt_idx = 0
        THEN [outcome |-> "raised_up", calls |-> upw.made,
              context_model |-> None, judge_text |-> None,
              text_model |-> None, judge_model |-> None]
        ELSE [outcome |-> "appended", calls |-> j.made,
              context_model |-> Some(upw.role.current),
              judge_text |-> Some(j.text),
              text_model |-> j.text_model,
              judge_model |-> Some(j.role.current)]

\* Responses of the judge in an iteration taken alone: none, a text without
\* JSON and an accepted judgement.
IterJudgeResponses ==
    {None, Some(JudgeText("nojson", "", None)),
     Some(JudgeText("json", "YES", Some(ScoreScale)))}

\* Judge schedules as generate_model_schedule returns them for a list of
\* two or three models, and the empty one of a single judge model.
IterSchedules ==
    {<<>>, <<"model_a", "model_b">>, <<"model_b", "model_a", "model_a">>,
     <<"model_a", "model_b", "model_c">>}

\* The responses of the prompt-writer that fail `failures` times, by None and
\* by an empty text in turn, before a text is returned.
UpResponseClasses(k, failures) ==
    [i \in RetryRange(k) |->
        IF i > failures THEN "text" ELSE IF i % 2 = 1 THEN "nil" ELSE "empty"]

IterationInputs ==
    UNION {{[fn |-> "iteration", schedule |-> sch, judge_model |-> "model_a",
             attempt_idx |-> a, role |-> JudgeRole(m, m), retries |-> k,
             threshold |-> ScoreScale, up_responses |-> UpResponseClasses(k, f),
             responses |-> r] :
               m \in IF sch = <<>> \/ a = 0 THEN {"model_a"}
                     ELSE {sch[i] : i \in 1 .. Len(sch)},
               f \in 0 .. Max2(1, k),
               r \in [RetryRange(k) -> IterJudgeResponses]} :
           sch \in IterSchedules, k \in 0 .. MaxJudgeRetries, a \in 0 .. 1}

\* The SQL-role provider of the controller: the model self.sql_provider was
\* created for and self.current_sql_model.
SqlRole(provider, current) == [provider |-> provider, current |-> current]

\* The provider switched to the model of the iteration before.
ensure_sql_provider_previous(role, schedule, idx) ==
    IF idx < Len(schedule) /\ idx >= 1 /\ schedule[idx] # role.current
    THEN SqlRole(schedule[idx], schedule[idx])
    ELSE role

\* _ensure_sql_provider_for_attempt: the SQL role after it.
ensure_sql_provider(role, schedule, idx) ==
    IF idx < Len(schedule) /\ schedule[idx + 1] # role.current
    THEN SqlRole(schedule[idx + 1], schedule[idx + 1])
    ELSE role

\* The iterations of a run of query() from attempt index idx on, as far as
\* the SQL role goes: in.generated[n] says whether generate_sql returned a
\* text in iteration n (query() raises when it did not), and the run ends
\* with iteration Len(in.generated).  Each iteration that generated SQL is
\* logged with the model of the provider that received the request and the
\* sql_model its Iteration records.
RECURSIVE sql_role_of_run(_, _, _, _)
sql_role_of_run(in, idx, role, log) ==
    IF idx >= Len(in.generated)
    THEN log
    ELSE LET next == ensure_sql_provider(role, in.schedule, idx)
         IN  IF ~in.generated[idx + 1]
             THEN log
             ELSE sql_role_of_run(in, idx + 1, next,
                                  Append(log, [n |-> idx + 1,
                                               requested |-> next.provider,
                                               sql_model |-> next.current]))

\* Runs of the controller with a SQL model list headed by model_a: without a
\* schedule, or with a schedule of max_retries entries, over one iteration
\* or more, the last of which can fail to generate SQL.
SqlRunInputs ==
    UNION {{[fn |-> "sql_run", schedule |-> sch, sql_model |-> "model_a",
             generated |-> [i \in 1 .. n |-> i < n \/ last]] :
               sch \in [1 .. retries -> {"model_a", "model_b"}] \cup {<<>>},
               last \in BOOLEAN} :
           retries \in 1 .. MaxRetries + 1, n \in 1 .. MaxRetries + 1}

\* self.openrouter_context_map: the context lengths OpenRouter advertises
\* for the judge models.
openrouter_context_map(model) ==
    CASE model = "model_a" -> 8000
      [] model = "model_b" -> 100
      [] model = "model_c" -> 8000

\* _judge_context_limit for provider 'openrouter' with a context map: the
\* context length of self.current_judge_model.
judge_context_limit(current_judge_model) ==
    Some(openrouter_context_map(current_judge_model))

Timeouts == {0, 30, timeout}

ExecuteInputs ==
    {[fn |-> "execute_query_with_timeout", sql |-> s, seconds |-> t] :
        s \in Statements, t \in Timeouts}

CallInputs ==
    StripInputs \cup UniformInputs \cup ChooseInputs
    \cup ResStageInputs \cup ExecuteInputs \cup CallJudgeInputs
    \cup GenerateSqlInputs \cup GenerateTextInputs \cup ParseInputs
    \cup CreateProviderInputs \cup IterationInputs
    \cup {in \in SqlRunInputs :
             in.schedule # <<>> => Len(in.generated) <= Len(in.schedule)}
    \cup {in \in ConstructInputs :
             /\ (in.db_exists => in.db_dir_exists)
             /\ (in.schema_docs_stale => (in.schema_docs_exist /\ in.db_exists))}

\* A call of a helper function is pending; the controller is constructed and
\* idle.
CallInit ==
    /\ Constructed(MaxRetries, MaxWindow, MaxJudgeRetries, ScoreScale, TRUE, FALSE)
    /\ sched_in = None
    /\ sched_out = None
    /\ call_in \in {Some(in) :
                       in \in CallInputs \cup StratifiedInputs(MaxStratRows)}
    /\ call_out = None
    /\ db = IF call_in[1].fn = "__init__" /\ ~call_in[1].db_exists
            THEN MissingDb
            ELSE ChemblDb

Pending(fn) == call_in # None /\ call_out = None /\ call_in[1].fn = fn

Returns(value) ==
    /\ call_out' = Some(value)
    /\ UNCHANGED <<cfgvars, spvars, schema_file, system_prompt, runvars, schedvars,
                   call_in, db, progress_handler>>

StripUnrequestedLimit ==
    /\ Pending("strip_unrequested_limit")
    /\ LET in == call_in[1]
       IN  Returns(strip_unrequested_limit(in.enabled, in.sql, in.uq, in.up))

SampleResultRows ==
    /\ Pending("sample_result_rows")
    /\ LET in == call_in[1]
       IN  Returns(Returned(sample_result_rows(in.n, in.max_samples, in.take_ok)))

SampleResultRowsStratified ==
    /\ Pending("sample_result_rows_stratified")
    /\ LET in == call_in[1]
       IN  Returns(sample_result_rows_stratified(in.keys, in.strata_ok,
                                                 in.max_samples, in.take_ok))

ChooseSampleParams ==
    /\ Pending("choose_sample_params")
    /\ LET in == call_in[1]
       IN  Returns(choose_sample_params(in.table, in.available_tokens))

ResStage ==
    /\ Pending("res_stage")
    /\ LET in == call_in[1]
       IN  Returns(res_stage(in.exec[1], in.exec[2], in.exec[3], in.context_limit,
                             in.base_tokens, in.take_ok))

\* execute_query_with_timeout called with the text the SQL-writer returned.
ExecuteQueryWithTimeout ==
    /\ Pending("execute_query_with_timeout")
    /\ LET in == call_in[1]
       IN  \E r \in sqlite_execute(db, in.sql, 1, in.seconds) :
             /\ call_out' = Some(execute_query_with_timeout(r.engine, in.seconds))
             /\ db' = r.db
             /\ progress_handler'
                  = progress_handler_after(
                        set_progress_handler(progress_handler, in.seconds, 1),
                        r.engine)
    /\ UNCHANGED <<cfgvars, spvars, schema_file, system_prompt, runvars, schedvars,
                   call_in>>

\* _call_judge with an available judge provider.
CallJudge ==
    /\ Pending("_call_judge")
    /\ Returns(call_judge_passes(call_in[1], 1, None, <<>>))

\* The constructor called with db_path naming the file db.
Construct ==
    /\ Pending("__init__")
    /\ call_out' = Some(construct(call_in[1], db))
    /\ db' = construct(call_in[1], db).db
    /\ UNCHANGED <<cfgvars, spvars, schema_file, system_prompt, runvars, schedvars,
                   call_in, progress_handler>>

CreateProvider ==
    /\ Pending("create_provider")
    /\ LET in == call_in[1]
       IN  Returns(create_provider(in.provider, in.is_claude, in.env))

GenerateSql ==
    /\ Pending("generate_sql")
    /\ LET in == call_in[1]
       IN  Returns([sent |-> generate_sql_prompt(in.backend, in.is_available,
                                                 in.question, in.schema_docs,
                                                 in.conversation)])

GenerateText ==
    /\ Pending("generate_text")
    /\ Returns(generate_text(call_in[1].backend, call_in[1].response))

ParseJudgeOutput ==
    /\ Pending("parse_judge_output")
    /\ Returns(parse_judge_output(judge_text_of(call_in[1].text)))

\* The judge-role calls of one iteration of query().
IterationJudgeRole ==
    /\ Pending("iteration")
    /\ Returns(iteration_judge_role(call_in[1]))

\* The SQL-role requests of a run of query().
SqlRun ==
    /\ Pending("sql_run")
    /\ LET in == call_in[1]
       IN  Returns(sql_role_of_run(in, 0, SqlRole(in.sql_model, in.sql_model), <<>>))

CallNext ==
    \/ SqlRun
    \/ IterationJudgeRole
    \/ Construct
    \/ ParseJudgeOutput
    \/ GenerateText
    \/ GenerateSql
    \/ CreateProvider
    \/ ExecuteQueryWithTimeout
    \/ CallJudge
    \/ StripUnrequestedLimit
    \/ SampleResultRows
    \/ SampleResultRowsStratified
    \/ ChooseSampleParams
    \/ ResStage

CallSpec == CallInit /\ [][CallNext]_vars

\* ------------------------------------------------------------------------
\* Properties
\* ------------------------------------------------------------------------
\* The stop criterion as the specification words it.
StopCriterion(it) ==
    \/ (it.judge_score # None /\ it.judge_score[1] >= judge_score_threshold)
    \/ /\ it.judge_decision = Some(TRUE)
       /\ (it.judge_score = None \/ it.judge_score[1] >= judge_score_threshold)

NoIterationMeetsStop ==
    \A i \in 1 .. Len(iterations) : ~StopCriterion(iterations[i])

\* C1: every judgement stored in an Iteration with decision and score both
\* present has decision = YES exactly when score >= judge_score_threshold.
C1_AcceptedJudgementInvariant ==
    \A i \in 1 .. Len(iterations) :
        LET it == iterations[i]
        IN  (it.judge_decision # None /\ it.judge_score # None)
            => ((it.judge_decision = Some(TRUE))
                <=> (it.judge_score[1] >= judge_score_threshold))

\* C2: when the judge stage completes iteration n, the loop stops if and only
\* if the stop criterion holds of the judgement; otherwise, when
\* n < max_retries, iteration n + 1 is started.
C2_StopIffCriterion ==
    [][(pc = "judge" /\ Len(iterations') = Len(iterations) + 1)
       => LET it == iterations'[Len(iterations')]
          IN  /\ it.n = attempt_idx + 1
              /\ StopCriterion(it) <=> (pc' = "done" /\ outcome' = "stopped")
              /\ (~StopCriterion(it) /\ it.n < max_retries)
                 => (pc' = "up" /\ attempt_idx' = it.n /\ outcome' = "running")]_vars

\* A second iteration was started after a first that did not meet the
\* criterion, and the loop stopped on it.
C2_Witness ==
    /\ outcome = "stopped"
    /\ Len(iterations) = 2
    /\ ~StopCriterion(iterations[1])
    /\ StopCriterion(iterations[2])

\* C3: a stop by the stop criterion at iteration n returns the table of
\* iteration n, never nil.
C3_StopReturnsTable ==
    outcome = "stopped"
    => (result # None /\ result[1].n = Len(iterations))

Rank ==
    IF pc = "idle" THEN 0
    ELSE IF pc = "done" THEN 5 * (max_retries + 1)
    ELSE 5 * attempt_idx
         + (CASE pc = "up" -> 1 [] pc = "sql" -> 2 [] pc = "exec" -> 3 [] pc = "judge" -> 4)

C4_Bounded ==
    /\ Len(iterations) <= max_retries
    /\ attempt_idx < Max2(max_retries, 1)
    /\ outcome = "exhausted"
       => (result = None /\ Len(iterations) = max_retries /\ NoIterationMeetsStop)
    /\ (pc = "done" /\ NoIterationMeetsStop)
       => (result = None
           /\ outcome \in {"exhausted", "dry_run", "empty_question"} \cup Raised)
    /\ outcome = "dry_run" => (dry_run /\ iterations = <<>> /\ sql # None)
    /\ (pc = "done" /\ max_retries = 0)
       => (outcome \in {"exhausted", "empty_question"} /\ result = None
           /\ calls = NoCalls /\ sent = None)

C5_AtMostWindowBlocks ==
    sent # None => Len(sent[1].history) <= history_window

\* C6: the history in the prompt of iteration n is exactly the iterations
\* max(1, n - M) .. n - 1 in ascending order, iteration k being the k-th
\* entry appended; the SQL-writer's prompt also carries UP_n, the judge's
\* also UP_n, SQL_n and RES_n.
C6_ObservedHistory ==
    /\ \A k \in 1 .. Len(iterations) : iterations[k].n = k
    /\ sent # None
       => LET m == sent[1]
          IN  /\ m.history = SubSeq(iterations, Max2(1, m.n - history_window), m.n - 1)
              /\ m.role = "up" => (m.up = None /\ m.sql = None /\ m.res = None)
              /\ m.role = "sql" => (m.up # None /\ m.sql = None /\ m.res = None)
              /\ m.role = "judge" => (m.up # None /\ m.sql = Some(m.n) /\ m.res # None)

\* C7: every message list handed to a provider carries a system message whose
\* SHA-256 is the hash stored at construction, and while the system prompt
\* does not hash to the stored hash no provider is called.
C7_SystemPromptImmutable ==
    /\ system_prompt_hash = Sha256(build_system_prompt(schema_docs))
    /\ sent # None => Sha256(sent[1].system) = system_prompt_hash
    /\ Sha256(system_prompt) # system_prompt_hash
       => (sent = None /\ calls = NoCalls /\ iterations = <<>>)

C7_Witness ==
    /\ sent # None
    /\ sent[1].role = "judge"
    /\ Len(iterations) >= 1

\* A step of query() that builds a prompt: the providers are available and
\* the stage is one of UP_n, SQL_n, J_n.
PromptBuildStep ==
    /\ available
    /\ pc \in {"up", "sql", "judge"}
    /\ pc' # pc

\* C8 as stated: once the schema document on disk differs from what was read
\* at construction, the next prompt build aborts the run.
C8_FileEditAborts ==
    [][(PromptBuildStep /\ schema_file # schema_docs)
       => outcome' = "raised_sp_changed"]_vars

\* C8 (amended): an edit of the file on disk during a run is not detected:
\* the next prompt build passes the hash check and hands the provider the
\* system prompt of construction; a prompt build aborts exactly when the
\* system prompt in memory does not hash to the stored hash.
C8_FileEditUndetected ==
    [][PromptBuildStep
       => /\ (outcome' = "raised_sp_changed")
             <=> (Sha256(system_prompt) # system_prompt_hash)
          /\ (schema_file # schema_docs /\ Sha256(system_prompt) = system_prompt_hash)
             => /\ sent' # None
                /\ sent'[1].system = build_system_prompt(schema_docs)
                /\ sent'[1].disk = schema_file
                /\ sent'[1].n = attempt_idx + 1]_vars

\* A prompt was built and sent after the file had been edited.
C8_Witness ==
    /\ sent # None
    /\ sent[1].disk # schema_docs
    /\ outcome \notin Raised

\* C9: for a non-empty model list and a policy among orderly, random and
\* cicada the schedule has exactly num_retries entries, each one a model of
\* the list.
C9_ScheduleLengthAndMembership ==
    (sched_out # None
     /\ Len(sched_in[1].models) > 0
     /\ sched_in[1].cycle_method \in CycleMethods)
    => /\ sched_out[1].status = "returned"
       /\ Len(sched_out[1].schedule) = sched_in[1].num_retries
       /\ Range(sched_out[1].schedule) \subseteq Range(sched_in[1].models)

C9_Witness ==
    /\ sched_out # None
    /\ sched_in[1].cycle_method = "random"
    /\ Len(sched_in[1].models) = MaxModels
    /\ Len(sched_out[1].schedule) = MaxCount

\* C10: under the orderly policy entry i of the schedule is models[i mod N].
C10_OrderlyWrap ==
    (sched_out # None
     /\ Len(sched_in[1].models) > 0
     /\ sched_in[1].cycle_method = "orderly")
    => LET models   == sched_in[1].models
           schedule == sched_out[1].schedule
       IN  /\ DOMAIN schedule = 1 .. sched_in[1].num_retries
           /\ \A i \in 0 .. sched_in[1].num_retries - 1 :
                 schedule[i + 1] = models[(i % Len(models)) + 1]

\* An orderly schedule that wraps around a list of distinct models.
C10_Witness ==
    /\ sched_out # None
    /\ sched_in[1].cycle_method = "orderly"
    /\ Len(sched_in[1].models) = 2
    /\ sched_in[1].models[1] # sched_in[1].models[2]
    /\ Len(sched_out[1].schedule) > 2

\* The primes up to 100 by the definition of a prime, in ascending order.
PrimesTo100 ==
    Ascending({p \in 2 .. 100 : \A d \in 2 .. p - 1 : p % d # 0})

\* C11: under the cicada policy the schedule is a function of (models, count):
\* entry i is models[((i * P[i mod 25]) mod 233) mod N], P being the 25 primes
\* up to 100 in ascending order, so two calls with the same inputs return the
\* same schedule.
C11_CicadaDeterministic ==
    /\ Len(PrimesTo100) = 25
    /\ (sched_out # None
        /\ Len(sched_in[1].models) > 0
        /\ sched_in[1].cycle_method = "cicada")
       => LET models   == sched_in[1].models
              schedule == sched_out[1].schedule
          IN  /\ sched_out[1].status = "returned"
              /\ DOMAIN schedule = 1 .. sched_in[1].num_retries
              /\ \A i \in 0 .. sched_in[1].num_retries - 1 :
                    schedule[i + 1] =
                        models[(((i * PrimesTo100[(i % 25) + 1]) % 233) % Len(models)) + 1]

\* A cicada schedule long enough for the prime index to wrap (i = 25) and for
\* i * P to exceed 233, over three distinct models.
C11_Witness ==
    /\ sched_out # None
    /\ sched_in[1].cycle_method = "cicada"
    /\ sched_in[1].models = <<"model_a", "model_b", "model_c">>
    /\ Len(sched_out[1].schedule) > 25

\* A text without its white space, in lower case.
Squeezed(text) == lower(SelectSeq(text, LAMBDA t : t.kind # "ws"))

\* The text contains `words N` for one of the listed cap/top-N phrases, in
\* any case: the words and a number follow one another with nothing but white
\* space between them.
ContainsCapPattern(text) ==
    LET sq == Squeezed(text)
    IN  \E pat \in LimitPatterns : \E p \in 1 .. Len(sq) :
            /\ p + Len(pat) <= Len(sq)
            /\ \A k \in 1 .. Len(pat) : sq[p + k - 1] = W(pat[k])
            /\ sq[p + Len(pat)].kind = "num"

\* C12: if UQ or UP_n contains one of the listed cap/top-N patterns, in any
\* case, the stripper returns the SQL it was given unchanged, whatever the SQL.
C12_RequestedLimitKept ==
    (call_out # None /\ call_in[1].fn = "strip_unrequested_limit"
     /\ (ContainsCapPattern(call_in[1].uq) \/ ContainsCapPattern(call_in[1].up)))
    => call_out[1] = call_in[1].sql

\* The stripper is enabled, the cap is asked for in capitals in UP_n only, and
\* the SQL has LIMIT clauses that would otherwise be removed.
C12_Witness ==
    /\ call_out # None
    /\ call_in[1].fn = "strip_unrequested_limit"
    /\ call_in[1].enabled
    /\ ~ContainsCapPattern(call_in[1].uq)
    /\ ContainsCapPattern(call_in[1].up)
    /\ strip(CloseUpSemicolons(RemoveClauses(call_in[1].sql, 1), 1)) # call_in[1].sql
    /\ call_out[1] = call_in[1].sql

\* The sample a returned sampler call emitted.
EmittedSample ==
    IF call_in[1].fn = "sample_result_rows_stratified"
    THEN (IF call_out[1].status = "returned" THEN call_out[1].value ELSE <<>>)
    ELSE call_out[1].value

TableHeight ==
    IF call_in[1].fn = "sample_result_rows_stratified"
    THEN Len(call_in[1].keys)
    ELSE call_in[1].n

SamplerReturned ==
    /\ call_out # None
    /\ call_in[1].fn \in {"sample_result_rows", "sample_result_rows_stratified"}

\* C13: in every emitted sample of a table of n rows the row with 0-based
\* index i is labelled head iff i < 3, tail iff i >= n - 3, middle otherwise,
\* and the row number of the label is i + 1.
C13_PositionLabels ==
    SamplerReturned
    => \A k \in 1 .. Len(EmittedSample) :
          LET e == EmittedSample[k]
              i == e.data
          IN  /\ (e.position = "head") <=> (i < 3)
              /\ (e.position = "tail") <=> (i >= TableHeight - 3)
              /\ (e.position = "middle") <=> ~(i < 3 \/ i >= TableHeight - 3)
              /\ e.row = i + 1

\* C14: when stratified sampling is active and the table has a group, every
\* group selected for sampling (all groups when there are at most max_samples,
\* otherwise the evenly spaced subset) has a row in the emitted sample.
C14_EveryGroupSampled ==
    (call_out # None
     /\ call_in[1].fn = "sample_result_rows_stratified"
     /\ call_in[1].strata_ok
     /\ Len(call_in[1].keys) >= 1
     /\ call_out[1].status = "returned")
    => LET keys     == call_in[1].keys
           all_keys == group_keys(keys)
           chosen   == selected_groups(Len(all_keys), call_in[1].max_samples)
       IN  \A k \in 1 .. Len(chosen) :
              \E j \in 1 .. Len(call_out[1].value) :
                 keys[call_out[1].value[j].data + 1] = all_keys[chosen[k]]

\* Nothing but the two provider calls has happened in a dry run.
C15_DryRunInert ==
    /\ dry_run
       => /\ calls.db = 0 /\ calls.judge = 0
          /\ files = {}
          /\ df = None /\ err = None /\ res_summary = None
          /\ iterations = <<>> /\ attempt_idx = 0
          /\ pc \notin {"exec", "judge"}
          /\ sent # None => sent[1].role \in {"up", "sql"}
    /\ outcome = "dry_run"
       => (dry_run /\ up = Some(1) /\ sql = Some(1) /\ result = None)

\* C15: a run with dry_run set returns right after SQL_1 has been generated
\* from UP_1, without executing a statement, without calling the judge and
\* without writing an intermediate or result file.
C15_DryRunNoExecution ==
    /\ []C15_DryRunInert
    /\ [][(dry_run /\ pc = "sql" /\ sql' # sql)
          => (pc' = "done" /\ outcome' = "dry_run" /\ sql' = Some(1)
              /\ calls'.sql = 1 /\ calls'.db = 0)]_vars

C15_Witness ==
    /\ outcome = "dry_run"
    /\ calls.sql = 1
    /\ sent # None /\ sent[1].role = "sql" /\ sent[1].up = Some(1)

\* C16: when SQL_n executes successfully and returns an empty table, the
\* summary given to the judge has row_count = 0, no sample rows and
\* res_mode = sample, with or without an advertised context length.
C16_EmptyTableSummary ==
    (call_out # None /\ call_in[1].fn = "res_stage"
     /\ call_in[1].exec[1] /\ call_in[1].exec[2] # None
     /\ call_in[1].exec[2][1].height = 0)
    => /\ call_out[1].status = "OK"
       /\ call_out[1].row_count = 0
       /\ call_out[1].samples = <<>>
       /\ call_out[1].res_mode = Some("sample")

\* C17: for a result of more than 1000 rows and a known token budget A > 0 the
\* sample size chosen is at most 1000, at most the row count and at most
\* floor(0.6 * A / tokens per row), the tokens per row estimated at the cell
\* width returned.
C17_SampleSizeWithinBudget ==
    (call_out # None /\ call_in[1].fn = "choose_sample_params"
     /\ call_in[1].table # None /\ call_in[1].table[1].height > 1000
     /\ call_in[1].available_tokens # None /\ call_in[1].available_tokens[1] > 0)
    => LET size == call_out[1][1]
           per_row == estimate_sample_row_tokens(call_in[1].table, call_out[1][2])
       IN  /\ size <= 1000
           /\ size <= call_in[1].table[1].height
           /\ 10 * size * per_row <= 6 * call_in[1].available_tokens[1]

\* C18: with judge_score_threshold = 1.0 the loop stops at an iteration only
\* if its judgement has score 1.0 and decision YES; a judgement with decision
\* NO or nil never stops it.
C18_ThresholdOneNeedsYes ==
    (judge_score_threshold = ScoreScale /\ outcome = "stopped")
    => LET it == iterations[Len(iterations)]
       IN  /\ it.judge_score = Some(ScoreScale)
           /\ it.judge_decision = Some(TRUE)

\* The SQL-writer was called, or found unavailable, and returned nil.
SqlWriterReturnedNil ==
    /\ pc = "sql"
    /\ pc' # pc
    /\ sql' = sql
    /\ outcome' # "raised_sp_changed"

\* C19: when the SQL-writer returns nil in iteration n the iteration counts
\* against max_retries and the controller goes on to iteration n + 1 if
\* n < max_retries, instead of ending the run.
C19_SqlNilProceeds ==
    [][SqlWriterReturnedNil
       => /\ outcome' \notin Raised
          /\ attempt_idx + 1 < max_retries
             => (pc' = "up" /\ attempt_idx' = attempt_idx + 1)]_vars

\* C20: after construction query() raises only when the system-prompt hash
\* check fails; a nil response of a provider, an execution error and a
\* malformed judge output are absorbed.
C20_RaisesOnlyOnPromptChange ==
    outcome \in Raised
    => (outcome = "raised_sp_changed" /\ Sha256(system_prompt) # system_prompt_hash)

\* The executor reports a failure of the engine as (failure, no table,
\* message), and an abort by the progress handler as the timeout message.
ExecutorAbsorbsFailure ==
    \A seconds \in Timeouts :
      \A engine \in EngineOutcomes(1, seconds) :
        engine.kind = "error"
        => LET r == execute_query_with_timeout(engine, seconds)
           IN  /\ r[1] = FALSE
               /\ r[2] = None
               /\ r[3] # None
               /\ engine.msg = "interrupted" => r[3] = Some(timed_out_message(seconds))

\* SQL_n has failed and the controller is in stage J_n.
JudgingFailedExecution == pc = "judge" /\ err # None

CallJudgeReturned == call_out # None /\ call_in[1].fn = "_call_judge"

\* C22: every judge attempt that ends in a parse failure, an invariant
\* violation or a nil response has its raw response persisted under
\* logs/judge_malformed.
C22_FailedAttemptsPersisted ==
    CallJudgeReturned
    => \A k \in 1 .. Len(call_out[1].passes) :
         LET pass == call_out[1].passes[k]
         IN  pass.kind \in {"malformed", "invariant", "nil"}
             => /\ pass.saved # None
                /\ pass.saved[1].dir = "logs/judge_malformed"

\* execute_query_with_timeout has returned.
ExecutorReturned == call_out # None /\ call_in[1].fn = "execute_query_with_timeout"

\* C23: whatever statement text the SQL-writer returned, the database after
\* its execution is the database before it.
C23_DatabaseNeverWritten ==
    ExecutorReturned => db = ChemblDb

\* The constructor has returned or raised.
ConstructReturned == call_out # None /\ call_in[1].fn = "__init__"

\* The configuration errors of the constructor's arguments.
ConfigurationError(in) ==
    \/ ~in.db_exists
    \/ normalized_profile(in.filter_profile) \notin {"strict", "relaxed"}
    \/ no_models_meet_context(in, in.sql_contexts)
    \/ no_models_meet_context(in, in.judge_contexts)

\* C24: with a configuration error (no database file at db_path, a filter
\* profile other than strict and relaxed, a model list emptied by the
\* min-context filter) construction fails before any provider is created,
\* and a missing database file is not created.
C24_ConfigurationErrorsFailFast ==
    (ConstructReturned /\ ConfigurationError(call_in[1]))
    => /\ call_out[1].outcome # "constructed"
       /\ call_out[1].providers = 0
       /\ (~call_in[1].db_exists => ~db.exists)

\* create_provider has returned or raised.
CreateProviderReturned == call_out # None /\ call_in[1].fn = "create_provider"

\* C25: create_provider called with a named back-end does not return a
\* provider whose is_available() is false: it raises when the back-end is
\* unavailable.
C25_NamedUnavailableRaises ==
    (CreateProviderReturned /\ call_in[1].provider \in Backends
     /\ call_out[1].status = "returned")
    => call_out[1].available

\* The first back-end of AutoOrder whose credential is set, if any.
FirstByCredential(keys) ==
    LET hits == {i \in 1 .. Len(AutoOrder) : credential_of(AutoOrder[i]) \in keys}
    IN  IF hits = {} THEN None
        ELSE Some(AutoOrder[CHOOSE i \in hits : \A j \in hits : i <= j])

\* C26: in auto mode create_provider returns Claude-direct when the model
\* name implies Claude and the Anthropic credential is present, otherwise the
\* first back-end of the preference order whose credential is set, and the
\* local back-end only when no back-end credential is present.
C26_AutoPicksByCredential ==
    (CreateProviderReturned /\ call_in[1].provider = "auto")
    => LET in   == call_in[1]
           keys == in.env.keys
           out  == call_out[1]
       IN  /\ out.status = "returned"
           /\ (in.is_claude /\ in.env.has_anthropic /\ "ANTHROPIC_API_KEY" \in keys)
              => out.backend = "anthropic"
           /\ (~(in.is_claude /\ in.env.has_anthropic /\ "ANTHROPIC_API_KEY" \in keys)
               /\ FirstByCredential(keys) # None)
              => out.backend = FirstByCredential(keys)[1]
           /\ out.backend = "local" => keys = {}

\* generate_sql of an available back-end has sent its prompt.
GenerateSqlSent ==
    /\ call_out # None
    /\ call_in[1].fn = "generate_sql"
    /\ call_out[1].sent # None

\* C27: for every back-end, generate_sql given a non-empty conversation
\* sends exactly that conversation, and sends the legacy prompt only when no
\* conversation is supplied.
C27_ConversationAuthoritative ==
    GenerateSqlSent
    => IF conversation_given(call_in[1].conversation)
       THEN call_out[1].sent[1] = ConversationPrompt(call_in[1].conversation[1])
       ELSE call_out[1].sent[1].kind = "legacy"

\* generate_text has returned or raised.
GenerateTextReturned == call_out # None /\ call_in[1].fn = "generate_text"

\* The four failure cases of the HTTP request.
HttpFailure(response) ==
    \/ response.transport \in {"timeout", "http_error", "not_json", "wrong_shape"}
    \/ response.content \in {"missing", "null"}

\* C28: for every HTTP back-end generate_text returns nil, not a string and
\* not an exception, on an HTTP timeout, an HTTP error status, a body of the
\* wrong shape and a response whose message content is missing or null.
C28_FailuresReturnNil ==
    (GenerateTextReturned /\ HttpFailure(call_in[1].response))
    => call_out[1] = Returned(None)

\* parse_judge_output has returned.
ParseReturned == call_out # None /\ call_in[1].fn = "parse_judge_output"

\* A judge text the claim counts as valid: a JSON object whose decision is
\* YES or NO and whose score is a number in [0,1].
WellFormedJudgement(output) ==
    /\ output.kind = "json"
    /\ decision_upper(output.decision) \in {"YES", "NO"}
    /\ output.score.type = "number"
    /\ output.score.value \in Scores

\* C29: parse_judge_output returns (nil, nil) or a decision with a score in
\* [0,1], never exactly one nil, and (nil, nil) for every text without a
\* decodable JSON object, with a decision other than YES/NO or with a score
\* that is missing, non-numeric or outside [0,1].
C29_ParseAllOrNothing ==
    ParseReturned
    => LET out == call_out[1]
       IN  /\ (out[1] = None) <=> (out[2] = None)
           /\ out[2] # None => out[2][1] \in Scores
           /\ ~WellFormedJudgement(call_in[1].text) => out = <<None, None>>

\* C30: the stage scopes are a strict stack with guaranteed pop: outside
\* query(), before the call and after every return and raise, the stack is
\* the one query() was called with; between the stages of iteration n only
\* ITER_n is open; and the judge step of iteration n runs under exactly
\* ITER_n > J_n.
C30_StageStackRestored ==
    /\ [](/\ pc \in {"idle", "done"}
             => (log_stage_stack = <<>> /\ log_stage_tokens = <<>>)
          /\ pc \in Running
             => /\ log_stage_stack = <<Stage("ITER", attempt_idx + 1)>>
                /\ log_stage_tokens = <<<<>>>>)
    /\ [][(pc = "judge" /\ pc' # "judge")
          => stage_path' = <<Stage("ITER", attempt_idx + 1),
                             Stage("J", attempt_idx + 1)>>]_vars

\* query() raised out of SQL_2, after a judged iteration, and the stack is
\* the one it was called with.
C30_Witness ==
    /\ outcome = "raised_sql"
    /\ Len(iterations) = 1
    /\ stage_path = <<Stage("ITER", 2), Stage("SQL", 2)>>
    /\ log_stage_stack = <<>>

\* _call_prompt_writer returns the stripped first response that is neither
\* None nor empty after strip(), having made no call after it; with no such
\* response it has made every call of the retry range and returns None or
\* the empty text.  The results the controller model draws from are these.
PromptWriterFirstNonEmpty ==
    \A k \in 0 .. MaxJudgeRetries :
      /\ {[text  |-> up_text_class(call_prompt_writer(r, k).text),
           calls |-> call_prompt_writer(r, k).calls] :
             r \in [RetryRange(k) -> UpResponses]}
         = prompt_writer_loop(1, None, k)
      /\ \A r \in [RetryRange(k) -> UpResponses] :
           LET NonEmpty == {j \in RetryRange(k) :
                              r[j] # None /\ strip(r[j][1]) # <<>>}
               res      == call_prompt_writer(r, k)
           IN  IF NonEmpty = {}
               THEN res.text \in {None, Some(<<>>)} /\ res.calls = Max2(1, k)
               ELSE \E j \in NonEmpty :
                      /\ \A m \in NonEmpty : j <= m
                      /\ res.text = Some(strip(r[j][1]))
                      /\ res.calls = j

\* Stage UP_n has run.
PromptWriterStep == pc = "up" /\ pc' # "up"

\* C31: UP_n is the first non-empty response of the prompt-writer over its
\* retries in iteration n; when every retry fails or returns empty text the
\* controller reuses UP_(n-1) unchanged and goes on to SQL_n if n > 1, and
\* raises before any SQL-writer call if n = 1.
C31_PromptWriterChoice ==
    /\ [](/\ PromptWriterFirstNonEmpty
          /\ outcome = "raised_up"
             => (iterations = <<>> /\ sql = None /\ attempt_idx = 0 /\ up = None))
    /\ [][PromptWriterStep
          => LET n == attempt_idx + 1
             IN  /\ (calls'.up >= 1 /\ calls'.up < Max2(1, judge_call_retries))
                    => up' = Some(n)
                 /\ up' = Some(n)
                    => (calls'.up >= 1 /\ pc' = "sql" /\ outcome' = "running")
                 /\ up' # Some(n)
                    => IF n = 1
                       THEN /\ pc' = "done"
                            /\ outcome' \in {"raised_up", "raised_sp_changed"}
                            /\ calls'.sql = 0
                            /\ sql' = None
                       ELSE /\ up' = up
                            /\ up' = Some(iterations[n - 1].up)
                            /\ pc' = "sql"
                            /\ outcome' = "running"]_vars
    /\ [][(pc = "sql" /\ calls'.sql = 1) => (up # None /\ sent'[1].up = up)]_vars

\* The prompt-writer failed in iteration 2 and SQL_2 was generated from UP_1.
C31_Witness ==
    /\ Len(iterations) = 2
    /\ iterations[2].up = iterations[1].up
    /\ iterations[2].sql = 2

\* The judge-role calls of an iteration have been made.
IterationReturned == call_out # None /\ call_in[1].fn = "iteration"

\* C32: every prompt-writer and judge call made at attempt index a and retry
\* offset r goes to the provider of judge_schedule[(a + r) mod |schedule|]
\* when a judge schedule exists and to the provider of the single judge model
\* when none exists; the provider is created anew exactly when that model
\* differs from the one active before the call.
C32_JudgeModelByOffset ==
    IterationReturned
    => LET in   == call_in[1]
           made == call_out[1].calls
       IN  \A c \in 1 .. Len(made) :
             LET before == IF c = 1 THEN in.role.provider ELSE made[c - 1].model
             IN  /\ made[c].model
                    = IF in.schedule # <<>>
                      THEN in.schedule[((in.attempt_idx + made[c].offset)
                                        % Len(in.schedule)) + 1]
                      ELSE in.judge_model
                 /\ made[c].rebuilt <=> (made[c].model # before)

\* A judge call at retry offset 1 of iteration 2 went to the model at
\* position (1 + 1) mod 3 of a schedule of three, on a provider created for it.
C32_Witness ==
    /\ IterationReturned
    /\ call_in[1].schedule = <<"model_a", "model_b", "model_c">>
    /\ call_in[1].attempt_idx = 1
    /\ \E c \in 1 .. Len(call_out[1].calls) :
         /\ call_out[1].calls[c].stage = "J"
         /\ call_out[1].calls[c].offset = 1
         /\ call_out[1].calls[c].model = "model_c"
         /\ call_out[1].calls[c].rebuilt

\* The iterations of a run have generated their SQL.
SqlRunReturned == call_out # None /\ call_in[1].fn = "sql_run"

\* C33: with a SQL schedule, in every iteration n in which SQL is generated
\* the request goes to the provider of sql_schedule[n-1] and the Iteration
\* appended for n records sql_model = sql_schedule[n-1].
C33_SqlModelBySchedule ==
    (SqlRunReturned /\ call_in[1].schedule # <<>>)
    => \A k \in 1 .. Len(call_out[1]) :
         LET it == call_out[1][k]
         IN  /\ it.n = k
             /\ it.requested = call_in[1].schedule[it.n]
             /\ it.sql_model = call_in[1].schedule[it.n]

\* A run of three iterations whose schedule changed the model twice.
C33_Witness ==
    /\ SqlRunReturned
    /\ call_in[1].schedule = <<"model_b", "model_a", "model_b">>
    /\ Len(call_out[1]) = 3
    /\ call_out[1][2].requested = "model_a"
    /\ call_out[1][3].sql_model = "model_b"

\* C34: in each iteration the judge provider and the prompt-writer are each
\* invoked at most judge_call_retries times, for every judge_call_retries
\* >= 0, and the SQL provider exactly once.
C34_CallsWithinRetries ==
    /\ [](calls.up <= judge_call_retries /\ calls.judge <= judge_call_retries)
    /\ [][(pc = "sql" /\ pc' # "sql") => calls'.sql = 1]_vars

\* Stage RES_n has been computed.
ResStageReturned == call_out # None /\ call_in[1].fn = "res_stage"

\* C35: res_mode is full exactly when the judge back-end advertises a context
\* length C and the estimated tokens of the full result are at most
\* int(0.9 * C) minus the estimated tokens of the scaffold, that difference
\* being positive; without an advertised context, after a failed execution
\* and for a result too large it is sample.  The summary of a successful
\* execution carries the mode.
C35_FullIffFits ==
    ResStageReturned
    => LET in      == call_in[1]
           success == in.exec[1]
           table   == in.exec[2]
           mode    == choose_res_mode(success, table, in.context_limit, in.base_tokens)
           room    == ((9 * in.context_limit[1]) \div 10) - in.base_tokens
       IN  /\ mode \in {"full", "sample"}
           /\ mode = "full"
              <=> /\ success
                  /\ in.context_limit \notin {None, Some(0)}
                  /\ room > 0
                  /\ estimate_full_result_tokens(table) <= room
           /\ call_out[1].status = "OK" => call_out[1].res_mode = Some(mode)
           /\ ~success => call_out[1].status = "ERROR"

\* A table of rows that fits the room left by the scaffold was sized full.
C35_Witness ==
    /\ ResStageReturned
    /\ call_out[1].res_mode = Some("full")
    /\ call_out[1].row_count = MaxRows
    /\ call_in[1].context_limit = Some(1000)
    /\ call_in[1].base_tokens = 50

\* _choose_sample_params has returned.
ChooseSampleParamsReturned ==
    call_out # None /\ call_in[1].fn = "choose_sample_params"

\* The rows of the table the budget of int(0.6 * available) tokens pays for
\* at the given per-cell width.
RowsWithinBudget(in, width) ==
    row_budget(in.available_tokens[1]) \div estimate_sample_row_tokens(in.table, width)

\* C36: when the token budget allows fewer than 200 sample rows at cell
\* width 60 and the table has at least 200 rows, _choose_sample_params
\* returns (200, w) for the first width w of 50, 40, 30 at which 200 rows fit
\* the budget.
C36_NarrowerCellsChosen ==
    (/\ ChooseSampleParamsReturned
     /\ call_in[1].table # None
     /\ call_in[1].table[1].height >= MinSamples
     /\ call_in[1].available_tokens # None
     /\ call_in[1].available_tokens[1] > 0
     /\ RowsWithinBudget(call_in[1], DefaultCellLen) < MinSamples)
    => \A k \in 1 .. Len(AltCellLens) :
         (/\ RowsWithinBudget(call_in[1], AltCellLens[k]) >= MinSamples
          /\ \A j \in 1 .. k - 1 :
               RowsWithinBudget(call_in[1], AltCellLens[j]) < MinSamples)
         => call_out[1] = <<MinSamples, AltCellLens[k]>>

\* The pass of _call_judge that receives the text, at a threshold the text's
\* decision and score agree with.
JudgePassOn(text) ==
    judge_attempt([schedule |-> <<>>, judge_model |-> "model_a", attempt_idx |-> 0,
                   threshold |-> IF text.decision = "YES" THEN 0 ELSE ScoreScale + 1],
                  1, Some(text))

\* C37: a judge response whose JSON object has a valid score and decision
\* but no analysis key, or an analysis that is not a string, is malformed:
\* parse_judge_output returns (nil, nil) for it and _call_judge goes on to
\* the next attempt instead of accepting it.
C37_AnalysisRequired ==
    (/\ ParseReturned
     /\ call_in[1].text.kind = "json"
     /\ decision_upper(call_in[1].text.decision) \in {"YES", "NO"}
     /\ call_in[1].text.score.type = "number"
     /\ call_in[1].text.score.value \in Scores
     /\ call_in[1].text.analysis # "string")
    => /\ call_out[1] = <<None, None>>
       /\ JudgePassOn(judge_text_of(call_in[1].text)).kind = "malformed"

C39_JudgeModelProducedText ==
    (IterationReturned /\ call_out[1].outcome = "appended"
     /\ call_out[1].text_model # None)
    => call_out[1].judge_model = call_out[1].text_model

\* A result of MaxRows rows of three columns, and the estimate of the
\* scaffold it is sized with.
SizedTable == Some(Table(MaxRows, 3, 10, 8))

\* Stage RES_n of the iteration sized the result full.
SizedFull ==
    /\ IterationReturned
    /\ call_out[1].outcome = "appended"
    /\ choose_res_mode(TRUE, SizedTable,
                       judge_context_limit(call_out[1].context_model[1]), 50) = "full"

\* C40: when res_mode = full is chosen for RES_n, every judge call of
\* iteration n, at every retry offset, goes to a model with the context
\* length against which the full result was found to fit.
C40_SizedForReceivingModel ==
    SizedFull
    => \A c \in 1 .. Len(call_out[1].calls) :
         call_out[1].calls[c].stage = "J"
         => judge_context_limit(call_out[1].calls[c].model)
            = judge_context_limit(call_out[1].context_model[1])

====
